---------------------------- MODULE Spec2Model ----------------------------
(***************************************************************************)
(* LFN Audio Toolkit: the concurrent capture pipelines.                    *)
(*                                                                         *)
(*  - LongDurationRecorder (long_duration_recorder.py): a capture thread   *)
(*    (_audio_capture_worker) reads whole segments from the input stream   *)
(*    and puts them on self.audio_queue (queue.Queue(maxsize=10)); the     *)
(*    calling thread (record_long_session) gets them, filters them and     *)
(*    writes one file per segment.  Specification: Spec.                   *)
(*  - the live monitor (lfn_realtime_monitor.py): audio_callback puts      *)
(*    blocks on the module-level audio_queue (queue.Queue()), record_loop  *)
(*    threads drain it on a fixed cadence, toggle_monitoring starts and    *)
(*    stops them through the global flag.  Specification: MonSpec.         *)
(*  - stream negotiation of one record_loop (_build_rate_candidates,       *)
(*    _attempt_stream, _find_alternative_device) against a table of        *)
(*    devices.  Specification: NegSpec.                                    *)
(*                                                                         *)
(* Durations are whole seconds, sample counts are whole samples, and wall  *)
(* clock instants are counted in ticks of 1/TicksPerSecond second, so that *)
(* strftime's truncation to whole seconds is visible.  Sample rates of the   *)
(* monitor are counted in units of 1/HzUnits Hz, so that the 1 Hz          *)
(* tolerance of the rate comparison is visible.                            *)
(***************************************************************************)
EXTENDS Integers, Sequences, FiniteSets, TLC

\* ------------------------------------------------------------------ bounds
MaxTotalSeconds == 12      \* total_duration_hours * 3600 ranges over 1..MaxTotalSeconds
MaxSegmentSeconds == 3     \* segment_duration ranges over 1..MaxSegmentSeconds
MaxSampleRate == 2         \* sample_rate ranges over 1..MaxSampleRate
MaxStartTick == 1          \* datetime.now() at session start, in ticks
TicksPerSecond == 2        \* resolution of the modelled wall clock
MaxThreads == 2            \* record_loop threads toggle_monitoring may create
MaxCallbacks == 2          \* blocks the audio driver delivers to audio_callback
HzUnits == 2               \* resolution of the modelled sample rates
MaxLfnBins == 4            \* frequency bins of the low-frequency band
MaxHfBins == 4             \* frequency bins of the ultrasonic band
MaxChunks == 2             \* chunks a channel is split into
MaxInitDbRuns == 2         \* calls of init_db on one store

\* ------------------------------------------------------- program constants
RecorderQueueMaxsize == 10 \* queue.Queue(maxsize=10)
MonitorQueueMaxsize == 0   \* queue.Queue(): maxsize 0, i.e. no capacity
SAMPLE_RATE == 44100       \* default sample rate used as a fallback, Hz
HostApiErrno == -9999      \* the PortAudio error code record_loop retries on
InvalidRateErrno == HostApiErrno + 2  \* any PortAudio code other than the host-API one
DeviceUnavailableErrno == HostApiErrno + 14  \* another such code
MaxStreamChannels == 2     \* min(max_input_channels, 2)
\* lines 58-59: the thresholds the module binds when it is loaded, dB
ModuleThresholds == [lfn |-> 45, hf |-> 50]
\* lines 1058, 1062, 1085-1086: the thresholds the program rebinds from its
\* command line before any analysis; these are the argparse defaults, dB
ProgramThresholds == [lfn |-> -20, hf |-> -30]
SPECTROGRAM_NPERSEG == 2048
PeakProminence == 3        \* find_peaks(..., prominence=3)
EmptyBandDb == -100        \* level reported for a band without bins
MinFilterLength == 100     \* a chunk is filtered when longer than this
max_retries == 3           \* attempts to create the spectrogram directory
LF_RANGE == <<20, 100>>    \* Hz
HF_RANGE == <<20000, 24000>>

VARIABLES
    \* ---- LongDurationRecorder fields
    sample_rate,              \* self.sample_rate
    segment_duration,         \* self.segment_duration
    session,                  \* history: calls of record_long_session on the instance
    is_recording,             \* self.is_recording
    self_audio_queue,         \* self.audio_queue
    \* ---- record_long_session locals (the consumer, on the calling thread)
    c_pc,                     \* position of record_long_session
    total_duration_seconds,
    segments_needed,
    start_time,               \* datetime.now() at line 82, in ticks
    segment_count,
    audio_data,               \* <<>> or <<segment>>: the consumer's local
    c_exit,                   \* how the consumer left its loop
    returned,                 \* the segment_count record_long_session returned
    \* ---- _audio_capture_worker locals (the capture thread)
    w_pc,                     \* position of _audio_capture_worker
    samples_captured,
    audio_segment,            \* <<>> or <<segment>>: the worker's local
    overflowed,               \* flag of the last stream.read
    stream_open,              \* the sd.InputStream of the with block
    w_error,                  \* the except branch at line 184 was taken
    \* ---- observation of the recorder
    captured,                 \* segments returned by stream.read, in order
    enqueued,                 \* items the worker has put, in order
    files,                    \* files written by sf.write, in order
    \* ---- live monitor
    monitoring,               \* global monitoring
    audio_queue,              \* global audio_queue
    threads,                  \* record_loop threads: id -> position, buffer
    streams,                  \* id -> state of the stream of that thread ("trial": the started trial stream)
    callbacks,                \* blocks audio_callback has finished with (enqueued or dropped)
    in_callback,              \* id -> audio_callback of that stream has read the flag as True and not yet put
    \* ---- stream negotiation of one record_loop
    requested_sample_rate,    \* global requested_sample_rate, 0 for None
    errno_attribute,          \* the library's PortAudioError objects have an attribute errno
    devices,                  \* sd.query_devices(): index -> device info
    device,                   \* record_loop's device (0: no such device)
    channels,                 \* record_loop's channels
    n_pc,                     \* position of record_loop in negotiation
    n_phase,                  \* "primary" or "alt": who called _attempt_stream
    device_idx,               \* _attempt_stream's device_idx
    a_channels,               \* _attempt_stream's channels
    preferred_rates,          \* _attempt_stream's preferred_rates
    rate_pos,                 \* position of the for loop over preferred_rates
    a_attempts,               \* _attempt_stream's attempts
    attempts,                 \* record_loop's attempts
    alternatives,             \* record_loop's alternatives
    alt_pos,                  \* position of the for loop over alternatives
    stream,                   \* <<>> or <<the main stream>>
    samplerate,               \* record_loop's samplerate, 0 for None
    behaviour,                \* what each (device, rate) does when tried
    tried,                    \* every candidate attempted, in order
    messages,                 \* the [INFO] lines printed
    report,                   \* the entries of the [ERROR] line printed
    n_result,                 \* how negotiation ended
    test_stream,              \* history: what happened to the trial stream of the latest attempt
    \* ---- analyze_and_plot on one window, and the store
    LFN_ALERT_THRESHOLD,      \* global LFN_ALERT_THRESHOLD, dB
    HF_ALERT_THRESHOLD,       \* global HF_ALERT_THRESHOLD, dB
    window_samples,           \* len(audio_data) of the window
    lfn_max_spectrum,         \* np.max(lfn_spec, axis=1), dB per bin
    hf_max_spectrum,          \* np.max(hf_spec, axis=1), dB per bin
    ana_pc,                   \* where analyze_and_plot stands
    fault,                    \* the latest failure of this analysis
    ana_result,               \* "returned", "skipped" or "raised"
    alerts,                   \* rows of table alerts, in insertion order
    live_logs,                \* rows of table live_logs, in insertion order
    alert_history,            \* global alert_history
    alert_file,               \* ALERT_LOG_PATH (alerts_log.json): absent, a JSON
                              \* document with its alerts, or truncated
    images,                   \* spectrogram images saved for the window
    makedirs_calls,           \* os.makedirs calls made for the window
    \* _apply_emm6_correction_chunked of the recorder, one channel
    audio,                    \* the samples of the channel, in fixed point
    chunk_size,               \* parameter chunk_size
    filtered,                 \* the output written so far
    chunk_i,                  \* loop variable i
    emm6_pc,                  \* "idle", "called", "loop", "returned", "returned_input"
    audio_none,               \* the argument audio is None
    raised,                   \* history: the chunks on which sosfilt raised
    writes,                   \* history: assignments made to each index of filtered
    \* ---- init_db of the monitor and its SQLite store
    database,                 \* the tables of the store: existence, columns, rows
    db_before,                \* history: the store before the latest init_db
    db_runs,                  \* calls of init_db made
    db_result                 \* "none", "ok", "warned" (the [WARN] line was printed)

rec_vars == <<session, sample_rate, segment_duration, is_recording, self_audio_queue,
              c_pc, total_duration_seconds, segments_needed, start_time,
              segment_count, audio_data, c_exit, returned,
              w_pc, samples_captured, audio_segment, overflowed, stream_open,
              w_error, captured, enqueued, files>>
mon_vars == <<monitoring, audio_queue, threads, streams, callbacks, in_callback>>
neg_vars == <<requested_sample_rate, errno_attribute, test_stream, devices, device, channels, n_pc, n_phase,
              device_idx, a_channels, preferred_rates, rate_pos, a_attempts,
              attempts, alternatives, alt_pos, stream, samplerate, behaviour,
              tried, messages, report, n_result>>
mon_rest == <<audio_queue, threads, streams, callbacks, in_callback>>
ana_vars == <<LFN_ALERT_THRESHOLD, HF_ALERT_THRESHOLD, window_samples, lfn_max_spectrum, hf_max_spectrum, ana_pc, fault,
              ana_result, alerts, live_logs, alert_history, alert_file, images,
              makedirs_calls>>
emm6_vars == <<audio, audio_none, chunk_size, filtered, chunk_i, emm6_pc, raised,
               writes>>

db_vars == <<database, db_before, db_runs, db_result>>

vars == <<rec_vars, mon_vars, neg_vars, ana_vars, emm6_vars, db_vars>>

\* ------------------------------------------------------------ pure helpers
Min(a, b) == IF a <= b THEN a ELSE b

\* int(np.ceil(a / b)) for whole a >= 0, b > 0
Ceil(a, b) == (a + b - 1) \div b

\* the end-of-stream item, None
NoneItem == [id |-> 0, samples |-> 0]

Segment(k, n) == [id |-> k, samples |-> n]

\* queue.Queue.full(): a maxsize <= 0 means the queue never fills
QueueFull_NeverFull(q, maxsize) == FALSE
QueueFull(q, maxsize) == maxsize > 0 /\ Len(q) >= maxsize

\* datetime.strftime('%Y%m%d_%H%M%S'): the instant truncated to whole seconds
StrfTime(t) == t \div TicksPerSecond

\* start_time + timedelta(seconds=segment_count * self.segment_duration)
SegmentTime_OffByOne(start, count, seg) == start + (count + 1) * seg * TicksPerSecond
SegmentTime(start, count, seg) == start + count * seg * TicksPerSecond

\* min(samples_per_segment, remaining_samples)
CurrentSegmentSamples_NoMin(per_segment, total, done) == per_segment
CurrentSegmentSamples(per_segment, total, done) == Min(per_segment, total - done)

SamplesPerSegment == segment_duration * sample_rate
TotalSamples == total_duration_seconds * sample_rate

\* ----------------------------------------------- negotiation: pure helpers
Abs(x) == IF x < 0 THEN -x ELSE x

\* the devices of the table, in index order; record_loop is given device 2
DeviceIds == {1, 2, 3}
DeviceOrder == <<1, 2, 3>>

\* sample rates, in units of 1/HzUnits Hz
SystemRate == SAMPLE_RATE * HzUnits
RequestedRates == {0, SystemRate, SystemRate + 1, 48000 * HzUnits + 1,
                   96000 * HzUnits}
DefaultRates == {0, SystemRate, 48000 * HzUnits}
RateUniverse == (RequestedRates \cup DefaultRates) \ {0}

\* what a device does with a candidate rate: "invalid": check_input_settings
\* raises; "host_error": opening the trial stream raises the host-API error;
\* "main_fail": the trial stream opens, starts, stops and closes, then
\* creating the main stream raises; "ok": everything succeeds
Outcomes == {"ok", "invalid", "host_error", "main_fail"}

\* lines 713-726: where the error of an attempt is raised: "check"
\* (check_input_settings), "create" (the trial InputStream), "start" or "stop"
\* (of the trial stream), "main" (the main InputStream), or nowhere
RaisePoints(o) == CASE o = "invalid" -> {"check"}
                    [] o = "host_error" -> {"create", "start", "stop"}
                    [] o = "main_fail" -> {"main"}
                    [] o = "ok" -> {"none"}

\* lines 717-726, 741-745: what is done to the streams of one attempt, in
\* order; test_stream.close() is in a finally clause
TrialEvents_NoFinally(o, raised_at) ==
    CASE raised_at \in {"check", "create"} -> <<>>
      [] raised_at = "start" -> <<"create">>
      [] raised_at = "stop" -> <<"create", "start">>
      [] raised_at = "main" -> <<"create", "start", "stop", "close">>
      [] raised_at = "none" -> <<"create", "start", "stop", "close", "main">>
TrialEvents(o, raised_at) ==
    CASE raised_at \in {"check", "create"} -> <<>>
      [] raised_at = "start" -> <<"create", "close">>
      [] raised_at = "stop" -> <<"create", "start", "close">>
      [] raised_at = "main" -> <<"create", "start", "stop", "close">>
      [] raised_at = "none" -> <<"create", "start", "stop", "close", "main">>

Started(events) == \E k \in 1..Len(events) : events[k] = "start"

\* line 789: getattr(err, 'errno', None): the PortAudio code of the error when
\* the exception object has the attribute errno, None when it has not
NoErrno == 0
ErrnoOf(o, has_errno) ==
    IF ~has_errno THEN NoErrno
    ELSE CASE o = "invalid" -> InvalidRateErrno
           [] o = "host_error" -> HostApiErrno
           [] o = "main_fail" -> DeviceUnavailableErrno

\* int(rate) of the printed messages
IntHz(rate) == rate \div HzUnits

\* lines 695-704: _build_rate_candidates
BuildRateCandidates_NoDefault(requested, info) ==
    Append(IF requested # 0 THEN <<requested>> ELSE <<>>, SystemRate)
BuildRateCandidates_DefaultFirst(requested, info) ==
    LET rates0 == IF requested # 0 THEN <<requested>> ELSE <<>>
        d == info.default_samplerate
    IN IF d # 0 THEN Append(Append(rates0, d), SystemRate)
       ELSE Append(rates0, SystemRate)
BuildRateCandidates(requested, info) ==
    LET rates0 == IF requested # 0 THEN <<requested>> ELSE <<>>
        rates1 == Append(rates0, SystemRate)
        d == info.default_samplerate
    IN IF d # 0 /\ ~(\E i \in 1..Len(rates1) : Abs(d - rates1[i]) < HzUnits)
         THEN Append(rates1, d)
         ELSE rates1

\* lines 728-738: the [INFO] line printed for the rate that succeeded
SubstitutionMessage(requested, rate) ==
    IF requested # 0 /\ Abs(rate - requested) > HzUnits
      THEN <<[kind |-> "unsupported", requested |-> IntHz(requested),
              rate |-> IntHz(rate), device |-> 0]>>
    ELSE IF requested = 0 /\ Abs(rate - SystemRate) > HzUnits
      THEN <<[kind |-> "adjusted", requested |-> 0, rate |-> IntHz(rate),
              device |-> 0]>>
    ELSE <<>>

\* lines 751-762: _find_alternative_device
FindAlternativeDevice(devs, original_idx) ==
    LET Eligible(idx) ==
            /\ devs[idx].max_input_channels > 0
            /\ devs[idx].name = devs[original_idx].name
            /\ idx # original_idx
    IN SelectSeq(DeviceOrder, Eligible)

\* -------------------------------------------------------------------- Init
RecInit ==
    /\ session = 0
    /\ sample_rate \in 1..MaxSampleRate
    /\ segment_duration \in 1..MaxSegmentSeconds
    /\ is_recording = FALSE
    /\ self_audio_queue = <<>>
    /\ c_pc = "idle"
    /\ total_duration_seconds = 0
    /\ segments_needed = 0
    /\ start_time = 0
    /\ segment_count = 0
    /\ audio_data = <<>>
    /\ c_exit = "none"
    /\ returned = -1
    /\ w_pc = "idle"
    /\ samples_captured = 0
    /\ audio_segment = <<>>
    /\ overflowed = FALSE
    /\ stream_open = FALSE
    /\ w_error = FALSE
    /\ captured = <<>>
    /\ enqueued = <<>>
    /\ files = <<>>

MonInit ==
    /\ monitoring = FALSE
    /\ audio_queue = <<>>
    /\ threads = [t \in 1..MaxThreads |-> [pc |-> "unborn", buffer |-> <<>>]]
    /\ streams = [t \in 1..MaxThreads |-> "none"]
    /\ callbacks = 0
    /\ in_callback = [t \in 1..MaxThreads |-> FALSE]

\* a recorder that is constructed and not used
RecIdle == RecInit /\ sample_rate = 1 /\ segment_duration = 1

\* no negotiation in progress
NegIdle ==
    /\ requested_sample_rate = 0
    /\ errno_attribute = TRUE
    /\ devices = [d \in DeviceIds |-> [name |-> "mic", max_input_channels |-> 1,
                                       default_samplerate |-> SystemRate]]
    /\ device = 2
    /\ channels = 0
    /\ n_pc = "idle"
    /\ n_phase = "primary"
    /\ device_idx = 0
    /\ a_channels = 0
    /\ preferred_rates = <<>>
    /\ rate_pos = 0
    /\ a_attempts = <<>>
    /\ attempts = <<>>
    /\ alternatives = <<>>
    /\ alt_pos = 0
    /\ stream = <<>>
    /\ samplerate = 0
    /\ behaviour = [k \in DeviceIds \X RateUniverse |-> "untried"]
    /\ tried = <<>>
    /\ messages = <<>>
    /\ report = <<>>
    /\ n_result = "none"
    /\ test_stream = <<>>

\* record_loop has just been started by toggle_monitoring on the given device;
\* what a device does with a rate is decided when the rate is first tried,
\* except that the device may be known to support its own default rate
NegInit ==
    /\ requested_sample_rate \in RequestedRates
    /\ errno_attribute \in BOOLEAN
    /\ devices \in [DeviceIds -> [name : {"mic", "other"},
                                  max_input_channels : {0, 1, 3},
                                  default_samplerate : DefaultRates]]
    /\ devices[2].name = "mic"
    /\ \A d \in {1, 3} : /\ devices[d].max_input_channels \in {0, 1}
                         /\ devices[d].default_samplerate = 48000 * HzUnits
    /\ device \in {0, 2}
    /\ channels = 0
    /\ n_pc = "query"
    /\ n_phase = "primary"
    /\ device_idx = 0
    /\ a_channels = 0
    /\ preferred_rates = <<>>
    /\ rate_pos = 0
    /\ a_attempts = <<>>
    /\ attempts = <<>>
    /\ alternatives = <<>>
    /\ alt_pos = 0
    /\ stream = <<>>
    /\ samplerate = 0
    /\ \E known \in {"untried", "ok"} :
         behaviour = [k \in DeviceIds \X RateUniverse |->
                        IF k = <<2, devices[2].default_samplerate>>
                          THEN known ELSE "untried"]
    /\ tried = <<>>
    /\ messages = <<>>
    /\ report = <<>>
    /\ n_result = "none"
    /\ test_stream = <<>>

\* toggle_monitoring has set the flag and started record_loop
MonStarted ==
    /\ monitoring = TRUE
    /\ audio_queue = <<>>
    /\ threads = [t \in 1..MaxThreads |-> [pc |-> "unborn", buffer |-> <<>>]]
    /\ streams = [t \in 1..MaxThreads |-> "none"]
    /\ callbacks = 0
    /\ in_callback = [t \in 1..MaxThreads |-> FALSE]

\* no window under analysis, an empty store
AnaIdle ==
    /\ LFN_ALERT_THRESHOLD = ModuleThresholds.lfn
    /\ HF_ALERT_THRESHOLD = ModuleThresholds.hf
    /\ window_samples = 0
    /\ lfn_max_spectrum = <<>>
    /\ hf_max_spectrum = <<>>
    /\ ana_pc = "idle"
    /\ fault = "none"
    /\ ana_result = "none"
    /\ alerts = <<>>
    /\ live_logs = <<>>
    /\ alert_history = <<>>
    /\ alert_file = [state |-> "absent", alerts |-> <<>>]
    /\ images = 0
    /\ makedirs_calls = 0

\* the levels a bin may have: around the band's threshold, with room for a
\* peak of prominence PeakProminence below, at and above it
BandLevels(threshold) ==
    {threshold - PeakProminence, threshold, threshold + 1}

\* the levels of a band of at most one bin: at and above the threshold
EdgeLevels(threshold) == {threshold, threshold + 1}

\* the JSON alert log left by earlier alerts: none was written, or the log
\* holds them
PriorLog(earlier) ==
    [state |-> IF earlier = <<>> THEN "absent" ELSE "document", alerts |-> earlier]

Profiles(levels, maxbins) == UNION {[1..n -> levels] : n \in 0..maxbins}

\* an alert logged before this window
OldAlert == [alert_type |-> "LFN", frequency |-> LF_RANGE[1], db_level |-> 60]

\* record_loop hands one window to analyze_and_plot; the spectrogram of the
\* window is given by its per-bin maxima in the two bands (a window too
\* short to be analysed has none): one band has a profile of several bins,
\* the other at most one bin. The store is empty or holds an earlier
\* alert, logged by this process (alert_history holds it too) or by an
\* earlier run of the program (alert_history starts empty, line 70). The
\* thresholds are those of the module (it was imported) or those of the
\* program run with its default command line
AnaInit ==
    /\ \E th \in {ModuleThresholds, ProgramThresholds} :
         /\ LFN_ALERT_THRESHOLD = th.lfn
         /\ HF_ALERT_THRESHOLD = th.hf
    /\ window_samples \in {SPECTROGRAM_NPERSEG - 1, SPECTROGRAM_NPERSEG}
    /\ \/ /\ lfn_max_spectrum \in
                Profiles(BandLevels(LFN_ALERT_THRESHOLD), MaxLfnBins)
          /\ hf_max_spectrum \in Profiles(EdgeLevels(HF_ALERT_THRESHOLD), 1)
       \/ /\ lfn_max_spectrum \in Profiles(EdgeLevels(LFN_ALERT_THRESHOLD), 1)
          /\ hf_max_spectrum \in
                Profiles(BandLevels(HF_ALERT_THRESHOLD), MaxHfBins)
    /\ window_samples < SPECTROGRAM_NPERSEG =>
         (lfn_max_spectrum = <<>> /\ hf_max_spectrum = <<>>)
    /\ ana_pc = "ready"
    /\ fault = "none"
    /\ ana_result = "none"
    /\ alerts \in {<<>>, <<OldAlert>>}
    /\ alert_file = PriorLog(alerts)
    /\ alert_history \in {<<>>, alerts}
    /\ live_logs = <<>>
    /\ images = 0
    /\ makedirs_calls = 0

Emm6Idle ==
    /\ audio = <<>>
    /\ chunk_size = 1
    /\ filtered = <<>>
    /\ chunk_i = 0
    /\ emm6_pc = "idle"
    /\ audio_none = FALSE
    /\ raised = {}
    /\ writes = <<>>

\* ---- the SQLite store (lines 117-169)
\* lines 121-140: the columns of CREATE TABLE that the store has always had
BaseColumns(t) ==
    IF t = "live_logs"
      THEN {"id", "timestamp", "lfn_peak", "lfn_db", "hf_peak", "hf_db"}
      ELSE {"id", "timestamp", "alert_type"}

\* lines 149-158: the columns added later, in the order of the dictionaries
AddedColumns(t) ==
    IF t = "live_logs" THEN <<"alert_triggered", "gpu_accelerated">>
    ELSE <<"frequency", "db_level", "message">>

AddedSet(t) == {AddedColumns(t)[k] : k \in 1..Len(AddedColumns(t))}

\* lines 150-151, 155-157: DEFAULT 0 for live_logs, no default for alerts
DefaultOf(t) == IF t = "live_logs" THEN "0" ELSE "NULL"

NoTable == [exists |-> FALSE, columns |-> {}, rows |-> <<>>]

\* a table made by an earlier version of the program: the base columns, some
\* of the added ones, no row or one row
LegacyTables(t) ==
    {NoTable} \cup
    UNION {{[exists |-> TRUE, columns |-> BaseColumns(t) \cup extra,
             rows |-> <<>>],
            [exists |-> TRUE, columns |-> BaseColumns(t) \cup extra,
             rows |-> <<[c \in BaseColumns(t) \cup extra |-> "stored"]>>]} :
           extra \in SUBSET AddedSet(t)}

DbIdle ==
    /\ database = [t \in {"live_logs", "alerts"} |-> NoTable]
    /\ db_before = database
    /\ db_runs = 0
    /\ db_result = "none"

DbInit ==
    /\ database \in [{"live_logs", "alerts"} -> LegacyTables("live_logs") \cup LegacyTables("alerts")]
    /\ \A t \in {"live_logs", "alerts"} : database[t] \in LegacyTables(t)
    /\ db_before = database
    /\ db_runs = 0
    /\ db_result = "none"

Init == RecInit /\ MonInit /\ NegIdle /\ AnaIdle /\ Emm6Idle /\ DbIdle

\* ------------------------------------------- record_long_session (consumer)
\* lines 69-72: the call of record_long_session on a new instance: the
\* directory and the plan
RecordLongSession ==
    /\ c_pc = "idle"
    /\ \E T \in 1..MaxTotalSeconds :
        /\ total_duration_seconds' = T
        /\ segments_needed' = Ceil(T, segment_duration)
    /\ c_pc' = "planned"
    /\ session' = session + 1
    /\ UNCHANGED <<mon_vars, neg_vars, ana_vars, emm6_vars, db_vars, sample_rate, segment_duration, self_audio_queue, audio_data,
                   c_exit, returned, samples_captured, audio_segment, overflowed,
                   stream_open, w_error, captured, enqueued, files, is_recording,
                   start_time, w_pc, segment_count>>

\* lines 69-72 again: record_long_session called on the same instance after
\* an earlier call has returned: the duration is that of the new argument
\* (line 71); the instance keeps self.audio_queue and self.is_recording, the
\* locals and the observation start afresh
RecordLongSessionAgain ==
    /\ c_pc = "returned"
    /\ session = 1
    /\ \E T \in 1..MaxTotalSeconds :
        /\ total_duration_seconds' = T
        /\ segments_needed' = Ceil(T, segment_duration)
    /\ c_pc' = "planned"
    /\ session' = session + 1
    /\ audio_data' = <<>>
    /\ c_exit' = "none"
    /\ samples_captured' = 0
    /\ audio_segment' = <<>>
    /\ overflowed' = FALSE
    /\ w_error' = FALSE
    /\ captured' = <<>>
    /\ enqueued' = <<>>
    /\ files' = <<>>
    /\ UNCHANGED <<mon_vars, neg_vars, ana_vars, emm6_vars, db_vars, sample_rate,
                   segment_duration, self_audio_queue, returned, stream_open,
                   is_recording, start_time, w_pc, segment_count>>

\* lines 81-82: self.is_recording = True, start_time = datetime.now(); the
\* clock of a second call is not before the start of the first
RecordLongSessionFlag ==
    /\ c_pc = "planned"
    /\ is_recording' = TRUE
    /\ \E now \in start_time..(start_time + MaxStartTick) : start_time' = now
    /\ c_pc' = "flagged"
    /\ UNCHANGED <<mon_vars, neg_vars, ana_vars, emm6_vars, db_vars, session, sample_rate, segment_duration, self_audio_queue,
                   total_duration_seconds, segments_needed,
                   segment_count, audio_data, c_exit, returned, w_pc,
                   samples_captured, audio_segment, overflowed, stream_open,
                   w_error, captured, enqueued, files>>

\* lines 85-89: the capture thread is created and started
RecordLongSessionStartThread ==
    /\ c_pc = "flagged"
    /\ w_pc' = "start"
    /\ c_pc' = "started"
    /\ UNCHANGED <<mon_vars, neg_vars, ana_vars, emm6_vars, db_vars, session, sample_rate, segment_duration, is_recording, self_audio_queue,
                   total_duration_seconds, segments_needed, start_time,
                   segment_count, audio_data, c_exit, returned,
                   samples_captured, audio_segment, overflowed, stream_open,
                   w_error, captured, enqueued, files>>

\* lines 92-93: segment_count = 0 and the try block is entered
RecordLongSessionEnterTry ==
    /\ c_pc = "started"
    /\ segment_count' = 0
    /\ c_pc' = "loop"
    /\ UNCHANGED <<mon_vars, neg_vars, ana_vars, emm6_vars, db_vars, session, sample_rate, segment_duration, is_recording, self_audio_queue,
                   total_duration_seconds, segments_needed, start_time,
                   audio_data, c_exit, returned, w_pc,
                   samples_captured, audio_segment, overflowed, stream_open,
                   w_error, captured, enqueued, files>>

\* lines 69-92: Ctrl+C reaches the calling thread before the try block of
\* line 93: no handler and no finally clause, record_long_session raises
\* KeyboardInterrupt to its caller; the flag stays as it is and a capture
\* thread already started goes on
RecordLongSessionInterrupt ==
    /\ c_pc \in {"planned", "flagged", "started"}
    /\ c_pc' = "raised"
    /\ UNCHANGED <<mon_vars, neg_vars, ana_vars, emm6_vars, db_vars, session, sample_rate, segment_duration, is_recording, self_audio_queue,
                   total_duration_seconds, segments_needed, start_time,
                   segment_count, audio_data, c_exit, returned, w_pc,
                   samples_captured, audio_segment, overflowed, stream_open,
                   w_error, captured, enqueued, files>>

\* line 94: while self.is_recording and segment_count < segments_needed
ConsumerLoopTest ==
    /\ c_pc = "loop"
    /\ IF is_recording /\ segment_count < segments_needed
         THEN c_pc' = "get" /\ UNCHANGED c_exit
         ELSE c_pc' = "finally" /\ c_exit' = "complete"
    /\ UNCHANGED <<mon_vars, neg_vars, ana_vars, emm6_vars, db_vars, session, sample_rate, segment_duration, is_recording, self_audio_queue,
                   total_duration_seconds, segments_needed, start_time,
                   segment_count, audio_data, returned, w_pc, samples_captured,
                   audio_segment, overflowed, stream_open, w_error, captured,
                   enqueued, files>>

\* lines 97-100: audio_queue.get(timeout=60) returns an item
ConsumerGet ==
    /\ c_pc = "get"
    /\ self_audio_queue # <<>>
    /\ self_audio_queue' = Tail(self_audio_queue)
    /\ IF Head(self_audio_queue) = NoneItem
         THEN c_pc' = "finally" /\ c_exit' = "sentinel" /\ UNCHANGED audio_data
         ELSE c_pc' = "write" /\ audio_data' = <<Head(self_audio_queue)>>
                              /\ UNCHANGED c_exit
    /\ UNCHANGED <<mon_vars, neg_vars, ana_vars, emm6_vars, db_vars, session, sample_rate, segment_duration, is_recording,
                   total_duration_seconds, segments_needed, start_time,
                   segment_count, returned, w_pc, samples_captured,
                   audio_segment, overflowed, stream_open, w_error, captured,
                   enqueued, files>>

\* lines 97, 123-124: the get timed out on an empty queue: queue.Empty is
\* caught and the warning logged
ConsumerTimeout_StopsRecording ==
    /\ c_pc = "get"
    /\ self_audio_queue = <<>>
    /\ c_pc' = "warned"
    /\ is_recording' = FALSE
    /\ UNCHANGED <<mon_vars, neg_vars, ana_vars, emm6_vars, db_vars, session, sample_rate, segment_duration,
                   self_audio_queue, total_duration_seconds, segments_needed,
                   start_time, segment_count, audio_data, c_exit, returned,
                   w_pc, samples_captured, audio_segment, overflowed,
                   stream_open, w_error, captured, enqueued, files>>
ConsumerTimeout ==
    /\ c_pc = "get"
    /\ self_audio_queue = <<>>
    /\ c_pc' = "warned"
    /\ UNCHANGED is_recording
    /\ UNCHANGED <<mon_vars, neg_vars, ana_vars, emm6_vars, db_vars, session, sample_rate, segment_duration,
                   self_audio_queue, total_duration_seconds, segments_needed,
                   start_time, segment_count, audio_data, c_exit, returned,
                   w_pc, samples_captured, audio_segment, overflowed,
                   stream_open, w_error, captured, enqueued, files>>

\* line 125: continue: back to the while test
ConsumerContinue ==
    /\ c_pc = "warned"
    /\ c_pc' = "loop"
    /\ UNCHANGED is_recording
    /\ UNCHANGED <<mon_vars, neg_vars, ana_vars, emm6_vars, db_vars, session, sample_rate, segment_duration,
                   self_audio_queue, total_duration_seconds, segments_needed,
                   start_time, segment_count, audio_data, c_exit, returned,
                   w_pc, samples_captured, audio_segment, overflowed,
                   stream_open, w_error, captured, enqueued, files>>

\* lines 103-111: name the file, filter, sf.write: the file is on disk
ConsumerWrite ==
    /\ c_pc = "write"
    /\ files' = Append(files,
          [index |-> segment_count + 1,
           timestamp |-> StrfTime(SegmentTime(start_time, segment_count,
                                              segment_duration)),
           segment |-> audio_data[1].id,
           samples |-> audio_data[1].samples])
    /\ c_pc' = "count"
    /\ UNCHANGED <<mon_vars, neg_vars, ana_vars, emm6_vars, db_vars, session, sample_rate, segment_duration, is_recording, self_audio_queue,
                   total_duration_seconds, segments_needed, start_time, c_exit,
                   segment_count, audio_data,
                   returned, w_pc, samples_captured, audio_segment, overflowed,
                   stream_open, w_error, captured, enqueued>>

\* lines 113-121: segment_count += 1, the log line, del audio_data
ConsumerCount ==
    /\ c_pc = "count"
    /\ segment_count' = segment_count + 1
    /\ audio_data' = <<>>
    /\ c_pc' = "loop"
    /\ UNCHANGED <<mon_vars, neg_vars, ana_vars, emm6_vars, db_vars, session, sample_rate, segment_duration, is_recording, self_audio_queue,
                   total_duration_seconds, segments_needed, start_time, c_exit,
                   returned, w_pc, samples_captured, audio_segment, overflowed,
                   stream_open, w_error, captured, enqueued, files>>

\* lines 108-111, 129-130: the filter or sf.write raises; nothing is written
ConsumerWriteError ==
    /\ c_pc = "write"
    /\ c_exit' = "error"
    /\ c_pc' = "finally"
    /\ UNCHANGED <<mon_vars, neg_vars, ana_vars, emm6_vars, db_vars, session, sample_rate, segment_duration, is_recording, self_audio_queue,
                   total_duration_seconds, segments_needed, start_time,
                   segment_count, audio_data, returned, w_pc, samples_captured,
                   audio_segment, overflowed, stream_open, w_error, captured,
                   enqueued, files>>

\* lines 127-128: Ctrl+C reaches the calling thread inside the try block,
\* between any two of its steps: also after sf.write and before the count
ConsumerKeyboardInterrupt ==
    /\ c_pc \in {"loop", "get", "warned", "write", "count"}
    /\ c_exit' = "interrupt"
    /\ c_pc' = "finally"
    /\ UNCHANGED <<mon_vars, neg_vars, ana_vars, emm6_vars, db_vars, session, sample_rate, segment_duration, is_recording, self_audio_queue,
                   total_duration_seconds, segments_needed, start_time,
                   segment_count, audio_data, returned, w_pc, samples_captured,
                   audio_segment, overflowed, stream_open, w_error, captured,
                   enqueued, files>>

\* lines 131-132: finally: self.is_recording = False
ConsumerFinally ==
    /\ c_pc = "finally"
    /\ is_recording' = FALSE
    /\ c_pc' = "join"
    /\ UNCHANGED <<mon_vars, neg_vars, ana_vars, emm6_vars, db_vars, session, sample_rate, segment_duration, self_audio_queue,
                   total_duration_seconds, segments_needed, start_time,
                   segment_count, audio_data, c_exit, returned, w_pc,
                   samples_captured, audio_segment, overflowed, stream_open,
                   w_error, captured, enqueued, files>>

\* lines 131-133: Ctrl+C reaches the calling thread inside the finally clause,
\* before the flag is cleared or while it waits in capture_thread.join(): no
\* handler is left, record_long_session raises KeyboardInterrupt to its
\* caller and the capture thread is left as it is
ConsumerFinallyInterrupt ==
    /\ c_pc \in {"finally", "join"}
    /\ c_pc' = "raised"
    /\ UNCHANGED <<mon_vars, neg_vars, ana_vars, emm6_vars, db_vars, session, sample_rate, segment_duration, is_recording, self_audio_queue,
                   total_duration_seconds, segments_needed, start_time,
                   segment_count, audio_data, c_exit, returned, w_pc, samples_captured,
                   audio_segment, overflowed, stream_open, w_error, captured,
                   enqueued, files>>

\* lines 133-144: capture_thread.join() returns, then return segment_count
ConsumerJoinReturn ==
    /\ c_pc = "join"
    /\ w_pc = "done"
    /\ returned' = segment_count
    /\ audio_data' = <<>>
    /\ c_pc' = "returned"
    /\ UNCHANGED <<mon_vars, neg_vars, ana_vars, emm6_vars, db_vars, session, sample_rate, segment_duration, is_recording, self_audio_queue,
                   total_duration_seconds, segments_needed, start_time,
                   segment_count, c_exit, w_pc, samples_captured, audio_segment,
                   overflowed, stream_open, w_error, captured, enqueued, files>>

\* ------------------------------------- _audio_capture_worker (capture thread)
\* lines 149-160: sd.InputStream(...) opens, or raises into line 184
WorkerOpen ==
    /\ w_pc = "start"
    /\ samples_captured' = 0
    /\ \/ stream_open' = TRUE /\ w_pc' = "loop" /\ UNCHANGED w_error
       \/ stream_open' = FALSE /\ w_pc' = "finally" /\ w_error' = TRUE
    /\ UNCHANGED <<mon_vars, neg_vars, ana_vars, emm6_vars, db_vars, session, sample_rate, segment_duration, is_recording, self_audio_queue,
                   c_pc, total_duration_seconds, segments_needed, start_time,
                   segment_count, audio_data, c_exit, returned, audio_segment,
                   overflowed, captured, enqueued, files>>

\* line 162: while self.is_recording and samples_captured < total_samples
WorkerLoopTest ==
    /\ w_pc = "loop"
    /\ IF is_recording /\ samples_captured < TotalSamples
         THEN w_pc' = "read" /\ UNCHANGED stream_open
         ELSE w_pc' = "finally" /\ stream_open' = FALSE
    /\ UNCHANGED <<mon_vars, neg_vars, ana_vars, emm6_vars, db_vars, session, sample_rate, segment_duration, is_recording, self_audio_queue,
                   c_pc, total_duration_seconds, segments_needed, start_time,
                   segment_count, audio_data, c_exit, returned, samples_captured,
                   audio_segment, overflowed, w_error, captured, enqueued, files>>

\* lines 164-177: stream.read(current_segment_samples) returns a segment
WorkerRead ==
    /\ w_pc = "read"
    /\ \E ovf \in BOOLEAN : overflowed' = ovf
    /\ LET seg == Segment(Len(captured) + 1,
                          CurrentSegmentSamples(SamplesPerSegment, TotalSamples,
                                                samples_captured))
       IN /\ audio_segment' = <<seg>>
          /\ captured' = Append(captured, seg)
    /\ w_pc' = "put"
    /\ UNCHANGED <<mon_vars, neg_vars, ana_vars, emm6_vars, db_vars, session, sample_rate, segment_duration, is_recording, self_audio_queue,
                   c_pc, total_duration_seconds, segments_needed, start_time,
                   segment_count, audio_data, c_exit, returned, samples_captured,
                   stream_open, w_error, enqueued, files>>

\* lines 168, 184-185: stream.read raises; the with block closes the stream
WorkerReadError ==
    /\ w_pc = "read"
    /\ w_error' = TRUE
    /\ stream_open' = FALSE
    /\ w_pc' = "finally"
    /\ UNCHANGED <<mon_vars, neg_vars, ana_vars, emm6_vars, db_vars, session, sample_rate, segment_duration, is_recording, self_audio_queue,
                   c_pc, total_duration_seconds, segments_needed, start_time,
                   segment_count, audio_data, c_exit, returned, samples_captured,
                   audio_segment, overflowed, captured, enqueued, files>>

\* lines 180-182: self.audio_queue.put(audio_segment) blocks while full
WorkerPut_SkipOverflowed ==
    /\ w_pc = "put"
    /\ ~QueueFull(self_audio_queue, RecorderQueueMaxsize)
    /\ IF overflowed
         THEN UNCHANGED <<self_audio_queue, enqueued>>
         ELSE /\ self_audio_queue' = Append(self_audio_queue, audio_segment[1])
              /\ enqueued' = Append(enqueued, audio_segment[1])
    /\ samples_captured' = samples_captured + audio_segment[1].samples
    /\ w_pc' = "loop"
    /\ UNCHANGED <<mon_vars, neg_vars, ana_vars, emm6_vars, db_vars, session, sample_rate, segment_duration, is_recording,
                   c_pc, total_duration_seconds, segments_needed, start_time,
                   segment_count, audio_data, c_exit, returned, audio_segment,
                   overflowed, stream_open, w_error, captured, files>>
WorkerPut_DropWhenFull ==
    /\ w_pc = "put"
    /\ IF QueueFull(self_audio_queue, RecorderQueueMaxsize)
         THEN UNCHANGED <<self_audio_queue, enqueued>>
         ELSE /\ self_audio_queue' = Append(self_audio_queue, audio_segment[1])
              /\ enqueued' = Append(enqueued, audio_segment[1])
    /\ samples_captured' = samples_captured + audio_segment[1].samples
    /\ w_pc' = "loop"
    /\ UNCHANGED <<mon_vars, neg_vars, ana_vars, emm6_vars, db_vars, session, sample_rate, segment_duration, is_recording,
                   c_pc, total_duration_seconds, segments_needed, start_time,
                   segment_count, audio_data, c_exit, returned, audio_segment,
                   overflowed, stream_open, w_error, captured, files>>
WorkerPut ==
    /\ w_pc = "put"
    /\ ~QueueFull(self_audio_queue, RecorderQueueMaxsize)
    /\ self_audio_queue' = Append(self_audio_queue, audio_segment[1])
    /\ enqueued' = Append(enqueued, audio_segment[1])
    /\ samples_captured' = samples_captured + audio_segment[1].samples
    /\ w_pc' = "loop"
    /\ UNCHANGED <<mon_vars, neg_vars, ana_vars, emm6_vars, db_vars, session, sample_rate, segment_duration, is_recording,
                   c_pc, total_duration_seconds, segments_needed, start_time,
                   segment_count, audio_data, c_exit, returned, audio_segment,
                   overflowed, stream_open, w_error, captured, files>>

\* lines 186-189: finally: self.audio_queue.put(None) blocks while full
WorkerFinally_NoSentinelOnError ==
    /\ w_pc = "finally"
    /\ IF w_error
         THEN UNCHANGED <<self_audio_queue, enqueued>>
         ELSE /\ ~QueueFull(self_audio_queue, RecorderQueueMaxsize)
              /\ self_audio_queue' = Append(self_audio_queue, NoneItem)
              /\ enqueued' = Append(enqueued, NoneItem)
    /\ w_pc' = "done"
    /\ UNCHANGED <<mon_vars, neg_vars, ana_vars, emm6_vars, db_vars, session, sample_rate, segment_duration, is_recording,
                   c_pc, total_duration_seconds, segments_needed, start_time,
                   segment_count, audio_data, c_exit, returned, samples_captured,
                   audio_segment, overflowed, stream_open, w_error, captured,
                   files>>
WorkerFinally ==
    /\ w_pc = "finally"
    /\ ~QueueFull(self_audio_queue, RecorderQueueMaxsize)
    /\ self_audio_queue' = Append(self_audio_queue, NoneItem)
    /\ enqueued' = Append(enqueued, NoneItem)
    /\ w_pc' = "done"
    /\ UNCHANGED <<mon_vars, neg_vars, ana_vars, emm6_vars, db_vars, session, sample_rate, segment_duration, is_recording,
                   c_pc, total_duration_seconds, segments_needed, start_time,
                   segment_count, audio_data, c_exit, returned, samples_captured,
                   audio_segment, overflowed, stream_open, w_error, captured,
                   files>>

RecNext ==
    \/ RecordLongSession
    \/ RecordLongSessionFlag
    \/ RecordLongSessionStartThread
    \/ RecordLongSessionEnterTry
    \/ RecordLongSessionInterrupt
    \/ ConsumerLoopTest
    \/ ConsumerGet
    \/ ConsumerTimeout
    \/ ConsumerContinue
    \/ ConsumerWrite
    \/ ConsumerCount
    \/ ConsumerWriteError
    \/ ConsumerKeyboardInterrupt
    \/ ConsumerFinally
    \/ ConsumerFinallyInterrupt
    \/ ConsumerJoinReturn
    \/ WorkerOpen
    \/ WorkerLoopTest
    \/ WorkerRead
    \/ WorkerReadError
    \/ WorkerPut
    \/ WorkerFinally

Next == RecNext

Spec == Init /\ [][Next]_vars

\* two calls of record_long_session(T) on one instance, the second after the
\* first has returned
ReuseNext == RecNext \/ RecordLongSessionAgain

\* the instance is constructed with the longest segments
RecReuse == RecInit /\ sample_rate = 1 /\ segment_duration = MaxSegmentSeconds

ReuseSpecInit == RecReuse /\ MonInit /\ NegIdle /\ AnaIdle /\ Emm6Idle /\ DbIdle

ReuseSpec == ReuseSpecInit /\ [][ReuseNext]_vars

\* ------------------------------------------------------------ live monitor
Alive(t) == threads[t].pc \notin {"unborn", "done", "died"}

SetPc(t, pc) == [threads EXCEPT ![t].pc = pc]

\* lines 901-912: toggle_monitoring
ToggleMonitoring ==
    /\ IF ~monitoring
         THEN /\ \E t \in 1..MaxThreads :
                    /\ threads[t].pc = "unborn"
                    /\ \A u \in 1..(t - 1) : threads[u].pc # "unborn"
                    /\ threads' = SetPc(t, "query")
              /\ monitoring' = TRUE
         ELSE /\ monitoring' = FALSE
              /\ UNCHANGED threads
    /\ UNCHANGED <<rec_vars, neg_vars, ana_vars, emm6_vars, db_vars, audio_queue, streams, callbacks, in_callback>>

\* lines 1175, 1182, 1212, 1225: the main thread clears the flag directly
MainStop ==
    /\ monitoring
    /\ monitoring' = FALSE
    /\ UNCHANGED <<rec_vars, neg_vars, ana_vars, emm6_vars, db_vars, audio_queue, threads, streams, callbacks, in_callback>>

\* callbacks that have read the flag and not yet put their block
InFlight == Cardinality({t \in 1..MaxThreads : in_callback[t]})

\* lines 688-690: audio_callback, run by the driver for a started stream
\* (trial or main), reads the flag: False, the block is dropped
AudioCallback(t) ==
    /\ streams[t] \in {"trial", "active"}
    /\ ~in_callback[t]
    /\ callbacks + InFlight < MaxCallbacks
    /\ IF monitoring
         THEN /\ in_callback' = [in_callback EXCEPT ![t] = TRUE]
              /\ UNCHANGED callbacks
         ELSE /\ callbacks' = callbacks + 1
              /\ UNCHANGED in_callback
    /\ UNCHANGED <<rec_vars, neg_vars, ana_vars, emm6_vars, db_vars, monitoring, audio_queue, threads, streams>>

\* line 692: audio_queue.put(indata.copy()), whatever the flag is by now
AudioCallbackPut(t) ==
    /\ in_callback[t]
    /\ ~QueueFull(audio_queue, MonitorQueueMaxsize)
    /\ audio_queue' = Append(audio_queue, callbacks + 1)
    /\ callbacks' = callbacks + 1
    /\ in_callback' = [in_callback EXCEPT ![t] = FALSE]
    /\ UNCHANGED <<rec_vars, neg_vars, ana_vars, emm6_vars, db_vars, monitoring, threads, streams>>

\* lines 769-783: record_loop queries the device; an error or a device with
\* no input channels clears the flag and returns
RecordLoopQuery(t) ==
    /\ threads[t].pc = "query"
    /\ \/ threads' = SetPc(t, "negotiate") /\ UNCHANGED monitoring
       \/ threads' = SetPc(t, "done") /\ monitoring' = FALSE
    /\ UNCHANGED <<rec_vars, neg_vars, ana_vars, emm6_vars, db_vars, audio_queue, streams, callbacks, in_callback>>

\* lines 785-837, 713-722: negotiation tries a candidate: its trial stream is
\* created and started; or no candidate is left (every one was refused, or
\* failed), the flag is cleared and record_loop returns
RecordLoopNegotiate(t) ==
    /\ threads[t].pc = "negotiate"
    /\ \/ /\ threads' = SetPc(t, "trial")
          /\ streams' = [streams EXCEPT ![t] = "trial"]
          /\ UNCHANGED monitoring
       \/ /\ threads' = SetPc(t, "done")
          /\ monitoring' = FALSE
          /\ UNCHANGED streams
    /\ UNCHANGED <<rec_vars, neg_vars, ana_vars, emm6_vars, db_vars, audio_queue, callbacks, in_callback>>

\* lines 723-745: the trial stream is stopped (which waits for a running
\* callback) and closed; then the main stream is created, not started, or its
\* creation raises and negotiation goes on
RecordLoopTrialStop(t) ==
    /\ threads[t].pc = "trial"
    /\ ~in_callback[t]
    /\ \/ /\ threads' = SetPc(t, "enter")
          /\ streams' = [streams EXCEPT ![t] = "created"]
       \/ /\ threads' = SetPc(t, "negotiate")
          /\ streams' = [streams EXCEPT ![t] = "none"]
    /\ UNCHANGED <<rec_vars, neg_vars, ana_vars, emm6_vars, db_vars, monitoring, audio_queue, callbacks, in_callback>>

\* lines 839-840, 893-895: with stream: the stream starts, or start raises
\* PortAudioError, which clears the flag
RecordLoopEnter(t) ==
    /\ threads[t].pc = "enter"
    /\ \/ /\ threads' = SetPc(t, "check")
          /\ streams' = [streams EXCEPT ![t] = "active"]
          /\ UNCHANGED monitoring
       \/ /\ threads' = SetPc(t, "done")
          /\ monitoring' = FALSE
          /\ UNCHANGED streams
    /\ UNCHANGED <<rec_vars, neg_vars, ana_vars, emm6_vars, db_vars, audio_queue, callbacks, in_callback>>

\* line 857: while monitoring: the flag is read; when it is False the loop
\* is left and the with block is about to be left
RecordLoopCheck(t) ==
    /\ threads[t].pc = "check"
    /\ threads' = SetPc(t, IF monitoring THEN "sleep" ELSE "closing")
    /\ UNCHANGED <<rec_vars, neg_vars, ana_vars, emm6_vars, db_vars, monitoring, audio_queue, streams, callbacks, in_callback>>

\* line 840 (exit of "with stream"): the stream is stopped, which waits for a
\* running callback, and closed; the thread ends, after the loop was left
\* or with the exception that left the block
RecordLoopClose(t) ==
    /\ threads[t].pc \in {"closing", "unwinding"}
    /\ ~in_callback[t]
    /\ threads' = SetPc(t, IF threads[t].pc = "closing" THEN "done" ELSE "died")
    /\ streams' = [streams EXCEPT ![t] = "closed"]
    /\ UNCHANGED <<rec_vars, neg_vars, ana_vars, emm6_vars, db_vars, monitoring, audio_queue, callbacks, in_callback>>

\* lines 858-859: time.sleep(DURATION_SEC) ends; buffer = []
RecordLoopWake(t) ==
    /\ threads[t].pc = "sleep"
    /\ threads' = [threads EXCEPT ![t] = [pc |-> "drain", buffer |-> <<>>]]
    /\ UNCHANGED <<rec_vars, neg_vars, ana_vars, emm6_vars, db_vars, monitoring, audio_queue, streams, callbacks, in_callback>>

\* lines 860, 870: while not audio_queue.empty(); then if buffer
RecordLoopDrainTest(t) ==
    /\ threads[t].pc = "drain"
    /\ threads' = SetPc(t, IF audio_queue # <<>> THEN "get"
                           ELSE IF threads[t].buffer # <<>> THEN "analyze"
                           ELSE "check")
    /\ UNCHANGED <<rec_vars, neg_vars, ana_vars, emm6_vars, db_vars, monitoring, audio_queue, streams, callbacks, in_callback>>

\* lines 861-868: chunk = audio_queue.get() (blocking); buffer.append(chunk)
RecordLoopGet(t) ==
    /\ threads[t].pc = "get"
    /\ audio_queue # <<>>
    /\ audio_queue' = Tail(audio_queue)
    /\ threads' = [threads EXCEPT ![t] =
                     [pc |-> "drain",
                      buffer |-> Append(threads[t].buffer, Head(audio_queue))]]
    /\ UNCHANGED <<rec_vars, neg_vars, ana_vars, emm6_vars, db_vars, monitoring, streams, callbacks, in_callback>>

\* lines 871-885: concatenate and analyze_and_plot, which returns normally
RecordLoopAnalyze(t) ==
    /\ threads[t].pc = "analyze"
    /\ threads' = SetPc(t, "check")
    /\ UNCHANGED <<rec_vars, neg_vars, ana_vars, emm6_vars, db_vars, monitoring, audio_queue, streams, callbacks, in_callback>>

\* lines 667-669, 886-891: a ValueError, TypeError, RuntimeError or OSError
\* raised while the window is prepared or analysed is caught, by analyze_and_plot
\* itself or by record_loop, and reported
RecordLoopAnalyzeError_StopsMonitoring(t) ==
    /\ threads[t].pc = "analyze"
    /\ threads' = SetPc(t, "failed")
    /\ monitoring' = FALSE
    /\ UNCHANGED <<rec_vars, neg_vars, ana_vars, emm6_vars, db_vars, audio_queue, streams, callbacks, in_callback>>
RecordLoopAnalyzeError(t) ==
    /\ threads[t].pc = "analyze"
    /\ threads' = SetPc(t, "failed")
    /\ UNCHANGED monitoring
    /\ UNCHANGED <<rec_vars, neg_vars, ana_vars, emm6_vars, db_vars, audio_queue, streams, callbacks, in_callback>>

\* lines 888, 892: continue (or the return of analyze_and_plot): back to
\* while monitoring
RecordLoopContinue(t) ==
    /\ threads[t].pc = "failed"
    /\ threads' = SetPc(t, "check")
    /\ UNCHANGED monitoring
    /\ UNCHANGED <<rec_vars, neg_vars, ana_vars, emm6_vars, db_vars, audio_queue, streams, callbacks, in_callback>>

\* lines 174-185, 335-346: an sqlite3.Error raised by the store is caught by
\* no handler of analyze_and_plot or record_loop: the exception leaves the
\* with block, the flag untouched
RecordLoopAnalyzeUncaught(t) ==
    /\ threads[t].pc = "analyze"
    /\ threads' = SetPc(t, "unwinding")
    /\ UNCHANGED <<rec_vars, neg_vars, ana_vars, emm6_vars, db_vars, monitoring, audio_queue, streams, callbacks, in_callback>>

MonNext ==
    \/ ToggleMonitoring
    \/ MainStop
    \/ \E t \in 1..MaxThreads :
        \/ AudioCallback(t)
        \/ AudioCallbackPut(t)
        \/ RecordLoopQuery(t)
        \/ RecordLoopNegotiate(t)
        \/ RecordLoopTrialStop(t)
        \/ RecordLoopEnter(t)
        \/ RecordLoopCheck(t)
        \/ RecordLoopClose(t)
        \/ RecordLoopWake(t)
        \/ RecordLoopDrainTest(t)
        \/ RecordLoopGet(t)
        \/ RecordLoopAnalyze(t)
        \/ RecordLoopAnalyzeError(t)
        \/ RecordLoopContinue(t)
        \/ RecordLoopAnalyzeUncaught(t)

\* the monitor before toggle_monitoring is first called; no recorder is used
MonSpecInit == RecIdle /\ MonInit /\ NegIdle /\ AnaIdle /\ Emm6Idle /\ DbIdle

MonSpec == MonSpecInit /\ [][MonNext]_vars

\* ------------------------------------------------------ stream negotiation
\* lines 769-783: query the device; a query error or a device without input
\* channels clears the flag and returns
RecordLoopQueryDevice_NoChannelCheck ==
    /\ n_pc = "query"
    /\ IF device \notin DeviceIds
         THEN /\ monitoring' = FALSE
              /\ n_pc' = "returned"
              /\ n_result' = "query_error"
              /\ UNCHANGED <<channels, n_phase, device_idx, a_channels>>
         ELSE /\ channels' = Min(devices[device].max_input_channels,
                                 MaxStreamChannels)
              /\ n_phase' = "primary"
              /\ device_idx' = device
              /\ a_channels' = Min(devices[device].max_input_channels,
                                   MaxStreamChannels)
              /\ n_pc' = "attempt"
              /\ UNCHANGED <<monitoring, n_result>>
    /\ UNCHANGED <<rec_vars, ana_vars, emm6_vars, db_vars, mon_rest, requested_sample_rate, errno_attribute, test_stream, devices, device,
                   preferred_rates, rate_pos, a_attempts, attempts,
                   alternatives, alt_pos, stream, samplerate, behaviour, tried,
                   messages, report>>
RecordLoopQueryDevice ==
    /\ n_pc = "query"
    /\ IF device \notin DeviceIds
         THEN /\ monitoring' = FALSE
              /\ n_pc' = "returned"
              /\ n_result' = "query_error"
              /\ UNCHANGED <<channels, n_phase, device_idx, a_channels>>
         ELSE IF Min(devices[device].max_input_channels, MaxStreamChannels) = 0
         THEN /\ monitoring' = FALSE
              /\ n_pc' = "returned"
              /\ n_result' = "no_input_channels"
              /\ channels' = 0
              /\ UNCHANGED <<n_phase, device_idx, a_channels>>
         ELSE /\ channels' = Min(devices[device].max_input_channels,
                                 MaxStreamChannels)
              /\ n_phase' = "primary"
              /\ device_idx' = device
              /\ a_channels' = Min(devices[device].max_input_channels,
                                   MaxStreamChannels)
              /\ n_pc' = "attempt"
              /\ UNCHANGED <<monitoring, n_result>>
    /\ UNCHANGED <<rec_vars, ana_vars, emm6_vars, db_vars, mon_rest, requested_sample_rate, errno_attribute, test_stream, devices, device,
                   preferred_rates, rate_pos, a_attempts, attempts,
                   alternatives, alt_pos, stream, samplerate, behaviour, tried,
                   messages, report>>

\* lines 707-710: _attempt_stream starts: query the device, build the candidates
AttemptStreamBegin ==
    /\ n_pc = "attempt"
    /\ preferred_rates' = BuildRateCandidates(requested_sample_rate,
                                              devices[device_idx])
    /\ rate_pos' = 1
    /\ a_attempts' = <<>>
    /\ n_pc' = "rate"
    /\ UNCHANGED <<rec_vars, ana_vars, emm6_vars, db_vars, mon_vars, requested_sample_rate, errno_attribute, test_stream, devices, device,
                   channels, n_phase, device_idx, a_channels, attempts,
                   alternatives, alt_pos, stream, samplerate, behaviour, tried,
                   messages, report, n_result>>

\* lines 712-747: one pass of the for loop: validate, open and close the trial
\* stream, create the main stream and return it, or record the error; the
\* trial stream has callback=audio_callback, and between its start() and
\* stop() the driver may deliver a block to it (688-692)
AttemptStreamRate ==
    /\ n_pc = "rate"
    /\ rate_pos <= Len(preferred_rates)
    /\ LET rate == preferred_rates[rate_pos]
           key == <<device_idx, rate>>
       IN \E o \in Outcomes :
            /\ behaviour[key] \in {"untried", o}
            /\ behaviour' = [behaviour EXCEPT ![key] = o]
            /\ tried' = Append(tried, [device |-> device_idx, rate |-> rate,
                                       channels |-> a_channels, outcome |-> o])
            /\ IF o = "ok"
                 THEN /\ messages' = messages \o
                            SubstitutionMessage(requested_sample_rate, rate)
                      /\ stream' = <<[device |-> device_idx, rate |-> rate,
                                      channels |-> a_channels]>>
                      /\ samplerate' = rate
                      /\ n_pc' = "attempted"
                      /\ UNCHANGED <<a_attempts, rate_pos>>
                 ELSE /\ a_attempts' = Append(a_attempts,
                            [rate |-> rate,
                             errno |-> ErrnoOf(o, errno_attribute)])
                      /\ rate_pos' = rate_pos + 1
                      /\ messages' = IF o = "main_fail"
                            THEN messages \o
                                 SubstitutionMessage(requested_sample_rate, rate)
                            ELSE messages
                      /\ UNCHANGED <<stream, samplerate, n_pc>>
            /\ \E raised_at \in RaisePoints(o), delivered \in BOOLEAN :
                 /\ test_stream' = TrialEvents(o, raised_at)
                 /\ delivered => (Started(TrialEvents(o, raised_at))
                                   /\ callbacks < MaxCallbacks)
                 /\ callbacks' = IF delivered THEN callbacks + 1 ELSE callbacks
                 /\ audio_queue' = IF delivered /\ monitoring
                                     THEN Append(audio_queue, callbacks + 1)
                                     ELSE audio_queue
    /\ UNCHANGED <<rec_vars, ana_vars, emm6_vars, db_vars, monitoring, threads, streams, in_callback,
                   requested_sample_rate, errno_attribute, devices, device,
                   channels, n_phase, device_idx, a_channels, preferred_rates,
                   attempts, alternatives, alt_pos, report, n_result>>

\* line 748: every candidate failed: return None, None, attempts
AttemptStreamExhausted ==
    /\ n_pc = "rate"
    /\ rate_pos > Len(preferred_rates)
    /\ stream' = <<>>
    /\ samplerate' = 0
    /\ n_pc' = "attempted"
    /\ UNCHANGED <<rec_vars, ana_vars, emm6_vars, db_vars, mon_vars, requested_sample_rate, errno_attribute, test_stream, devices, device,
                   channels, n_phase, device_idx, a_channels, preferred_rates,
                   rate_pos, a_attempts, attempts, alternatives, alt_pos,
                   behaviour, tried, messages, report, n_result>>

\* lines 785-793, 825-837: back in record_loop after the primary device
RecordLoopAfterPrimary ==
    /\ n_pc = "attempted"
    /\ n_phase = "primary"
    /\ IF stream # <<>>
         THEN /\ n_pc' = "negotiated"
              /\ n_result' = "primary"
              /\ attempts' = <<>>
              /\ UNCHANGED <<monitoring, alternatives, alt_pos, report>>
         ELSE IF a_attempts # <<>>
                 /\ a_attempts[Len(a_attempts)].errno = HostApiErrno
         THEN /\ alternatives' = FindAlternativeDevice(devices, device)
              /\ alt_pos' = 1
              /\ attempts' = a_attempts
              /\ n_pc' = "alternatives"
              /\ UNCHANGED <<monitoring, report, n_result>>
         ELSE /\ report' = [i \in 1..Len(a_attempts) |->
                              [rate |-> IntHz(a_attempts[i].rate),
                               errno |-> a_attempts[i].errno]]
              /\ attempts' = a_attempts
              /\ monitoring' = FALSE
              /\ n_pc' = "returned"
              /\ n_result' = "failed"
              /\ UNCHANGED <<alternatives, alt_pos>>
    /\ UNCHANGED <<rec_vars, ana_vars, emm6_vars, db_vars, mon_rest, requested_sample_rate, errno_attribute, test_stream, devices, device,
                   channels, n_phase, device_idx, a_channels, preferred_rates,
                   rate_pos, a_attempts, stream, samplerate, behaviour, tried,
                   messages>>

\* lines 794-799: the next alternative: query it and call _attempt_stream
RecordLoopNextAlternative ==
    /\ n_pc = "alternatives"
    /\ alt_pos <= Len(alternatives)
    /\ n_phase' = "alt"
    /\ device_idx' = alternatives[alt_pos]
    /\ a_channels' = Min(devices[alternatives[alt_pos]].max_input_channels,
                         MaxStreamChannels)
    /\ n_pc' = "attempt"
    /\ UNCHANGED <<rec_vars, ana_vars, emm6_vars, db_vars, mon_vars, requested_sample_rate, errno_attribute, test_stream, devices, device,
                   channels, preferred_rates, rate_pos, a_attempts, attempts,
                   alternatives, alt_pos, stream, samplerate, behaviour, tried,
                   messages, report, n_result>>

\* lines 797-810: back in record_loop after an alternative: on success switch
\* to it and leave the loop (alt_attempts is then the device info, not a
\* list, so nothing is added to attempts); on failure go on
RecordLoopAfterAlternative ==
    /\ n_pc = "attempted"
    /\ n_phase = "alt"
    /\ IF stream # <<>>
         THEN /\ messages' = Append(messages,
                    [kind |-> "switched", requested |-> 0, rate |-> 0,
                     device |-> device_idx])
              /\ device' = device_idx
              /\ channels' = a_channels
              /\ n_pc' = "negotiated"
              /\ n_result' = "alternative"
              /\ UNCHANGED alt_pos
         ELSE /\ alt_pos' = alt_pos + 1
              /\ n_pc' = "alternatives"
              /\ UNCHANGED <<messages, device, channels, n_result>>
    /\ UNCHANGED <<rec_vars, ana_vars, emm6_vars, db_vars, mon_vars, requested_sample_rate, errno_attribute, test_stream, devices, n_phase,
                   device_idx, a_channels, preferred_rates, rate_pos,
                   a_attempts, attempts, alternatives, stream, samplerate,
                   behaviour, tried, report>>

\* lines 811-824: no alternative is left and there is no stream: print the
\* rates of attempts, clear the flag and return
RecordLoopAlternativesFailed_KeepsFlag ==
    /\ n_pc = "alternatives"
    /\ alt_pos > Len(alternatives)
    /\ IF stream = <<>>
         THEN /\ report' = [i \in 1..Len(attempts) |->
                              [rate |-> IntHz(attempts[i].rate), errno |-> 0]]
              /\ monitoring' = monitoring
              /\ n_pc' = "returned"
              /\ n_result' = "failed"
         ELSE /\ n_pc' = "negotiated"
              /\ n_result' = "alternative"
              /\ UNCHANGED <<report, monitoring>>
    /\ UNCHANGED <<rec_vars, ana_vars, emm6_vars, db_vars, mon_rest, requested_sample_rate, errno_attribute, test_stream, devices, device,
                   channels, n_phase, device_idx, a_channels, preferred_rates,
                   rate_pos, a_attempts, attempts, alternatives, alt_pos,
                   stream, samplerate, behaviour, tried, messages>>
RecordLoopAlternativesFailed ==
    /\ n_pc = "alternatives"
    /\ alt_pos > Len(alternatives)
    /\ IF stream = <<>>
         THEN /\ report' = [i \in 1..Len(attempts) |->
                              [rate |-> IntHz(attempts[i].rate), errno |-> 0]]
              /\ monitoring' = FALSE
              /\ n_pc' = "returned"
              /\ n_result' = "failed"
         ELSE /\ n_pc' = "negotiated"
              /\ n_result' = "alternative"
              /\ UNCHANGED <<report, monitoring>>
    /\ UNCHANGED <<rec_vars, ana_vars, emm6_vars, db_vars, mon_rest, requested_sample_rate, errno_attribute, test_stream, devices, device,
                   channels, n_phase, device_idx, a_channels, preferred_rates,
                   rate_pos, a_attempts, attempts, alternatives, alt_pos,
                   stream, samplerate, behaviour, tried, messages>>

NegNext ==
    \/ RecordLoopQueryDevice
    \/ AttemptStreamBegin
    \/ AttemptStreamRate
    \/ AttemptStreamExhausted
    \/ RecordLoopAfterPrimary
    \/ RecordLoopNextAlternative
    \/ RecordLoopAfterAlternative
    \/ RecordLoopAlternativesFailed

NegSpecInit == RecIdle /\ MonStarted /\ NegInit /\ AnaIdle /\ Emm6Idle /\ DbIdle

NegSpec == NegSpecInit /\ [][NegNext]_vars

\* ------------------------------------------------- analysis of one window
\* scipy.signal.find_peaks, local maxima: a bin, or the middle bin of a flat
\* run of bins, strictly above both neighbours; never the first or last bin
LocalMaxima(x) ==
    {(l + r) \div 2 : <<l, r>> \in
        {p \in (2..(Len(x) - 1)) \X (2..(Len(x) - 1)) :
            /\ p[1] <= p[2]
            /\ \A k \in p[1]..p[2] : x[k] = x[p[1]]
            /\ x[p[1] - 1] < x[p[1]]
            /\ x[p[2] + 1] < x[p[1]]}}

MaxOf(S) == CHOOSE m \in S : \A v \in S : v <= m
MinOf(S) == CHOOSE m \in S : \A v \in S : m <= v

\* scipy.signal.peak_prominences: the height of the peak above the higher
\* of the lowest points between it and the next higher bin on either side
Prominence(x, p) ==
    LET Higher == {k \in 1..Len(x) : x[k] > x[p]}
        l == IF \E k \in Higher : k < p
               THEN MaxOf({k \in Higher : k < p}) + 1 ELSE 1
        r == IF \E k \in Higher : k > p
               THEN MinOf({k \in Higher : k > p}) - 1 ELSE Len(x)
        left_min == MinOf({x[k] : k \in l..p})
        right_min == MinOf({x[k] : k \in p..r})
    IN x[p] - (IF left_min >= right_min THEN left_min ELSE right_min)

\* find_peaks(x, prominence=3)
FindPeaks(x) == {p \in LocalMaxima(x) : Prominence(x, p) >= PeakProminence}

\* np.argmax: the first index of the largest value
ArgMax(x, S) == MinOf({i \in S : \A j \in S : x[j] <= x[i]})

\* lines 277-278, 299-300: the frequency of bin i of the n bins that the
\* mask f >= range[0] & f <= range[1] keeps: inside the range
BinFrequency(range, i, n) == range[1] + ((i - 1) * (range[2] - range[1])) \div n

DetectPeak_GlobalMaximum(x, range) ==
    IF Len(x) = 0 THEN [peak |-> 0, db |-> EmptyBandDb]
    ELSE LET idx == ArgMax(x, 1..Len(x))
         IN [peak |-> BinFrequency(range, idx, Len(x)), db |-> x[idx]]

\* lines 279-316: the peak reported for a band: the strongest prominent peak,
\* else the largest bin, else (0, -100) for a band without bins
DetectPeak(x, range) ==
    IF Len(x) = 0 THEN [peak |-> 0, db |-> EmptyBandDb]
    ELSE LET peaks == FindPeaks(x)
             idx == IF peaks # {} THEN ArgMax(x, peaks)
                    ELSE ArgMax(x, 1..Len(x))
         IN [peak |-> BinFrequency(range, idx, Len(x)), db |-> x[idx]]

\* lines 319-332: strict comparison with the band's threshold
Exceeds(db, threshold) == db > threshold

Alert(type, p) == [alert_type |-> type, frequency |-> p.peak, db_level |-> p.db]

Measurement(l, h, flag) ==
    [lfn_peak |-> l.peak, lfn_db |-> l.db, hf_peak |-> h.peak, hf_db |-> h.db,
     alert_triggered |-> IF flag THEN 1 ELSE 0]

\* lines 678-679: the row written by the error handler
FallbackMeasurement ==
    [lfn_peak |-> 0, lfn_db |-> EmptyBandDb, hf_peak |-> 0,
     hf_db |-> EmptyBandDb, alert_triggered |-> 0]

\* line 260: the window is too short for one spectrogram segment
TooShort_Never(n) == FALSE
TooShort(n) == n < SPECTROGRAM_NPERSEG

\* the window handed to analyze_and_plot and the thresholds
ana_window == <<LFN_ALERT_THRESHOLD, HF_ALERT_THRESHOLD, window_samples,
                lfn_max_spectrum, hf_max_spectrum>>

\* lines 276-316: the peak reported for a band
BandPeak(band) ==
    IF band = "LFN" THEN DetectPeak(lfn_max_spectrum, LF_RANGE)
    ELSE DetectPeak(hf_max_spectrum, HF_RANGE)

\* lines 320, 327: the band's level is above the band's threshold
BandAlert(band) ==
    Exceeds(BandPeak(band).db,
            IF band = "LFN" THEN LFN_ALERT_THRESHOLD ELSE HF_ALERT_THRESHOLD)

\* The failures of an analysis, as values of fault. Caught by the handler at
\* 667: "analysis_error", a ValueError, TypeError, RuntimeError or OSError
\* before the alert check; "plot_build_error", one raised while the figure is
\* built (348-592); "makedirs_error", the OSError re-raised after the last
\* os.makedirs attempt (610-611); "plot_error", one raised by savefig;
\* "info_error", the OSError of writing the _info.txt file. Caught by no
\* handler of analyze_and_plot: the sqlite3.Error of an insert,
\* "lfn_alert_store", "hf_alert_store", "measurement_store", and of
\* get_db_connection() for the timeline (476), "timeline_store". Caught in
\* log_alert (200-201), which warns and goes on: "alert_log_error", the log
\* cannot be opened, and "alert_log_truncated", the log was opened for
\* writing (and so emptied) and json.dump failed.

\* lines 232-316: the call of analyze_and_plot on the window: a window that is
\* too short is skipped; otherwise the spectrogram and the peaks of the two
\* bands are computed, or that raises an error the handler catches
AnalyzeAndPlot ==
    /\ ana_pc = "ready"
    /\ IF TooShort(window_samples)
         THEN ana_pc' = "done" /\ ana_result' = "skipped" /\ UNCHANGED fault
         ELSE \/ ana_pc' = "lfn_check" /\ UNCHANGED <<fault, ana_result>>
              \/ /\ ana_pc' = "handler"
                 /\ fault' = "analysis_error"
                 /\ UNCHANGED ana_result
    /\ UNCHANGED <<rec_vars, mon_vars, neg_vars, emm6_vars, db_vars, ana_window,
                   alerts, live_logs, alert_history, alert_file, images,
                   makedirs_calls>>

\* lines 320-332 with log_alert (172-204): the band's test and, for a level
\* above the threshold, one log_alert call: the insert into alerts is
\* committed or raises sqlite3.Error; then the alert is appended to
\* alert_history and the JSON log is rewritten from alert_history, or cannot
\* be opened, or is opened and not written
LogAlert(band) ==
    /\ ana_pc = (IF band = "LFN" THEN "lfn_check" ELSE "hf_check")
    /\ LET next == IF band = "LFN" THEN "hf_check" ELSE "measure"
           alert == Alert(band, BandPeak(band))
       IN IF ~BandAlert(band)
            THEN /\ ana_pc' = next
                 /\ UNCHANGED <<fault, ana_result, alerts, alert_history,
                                alert_file>>
            ELSE \/ /\ ana_pc' = "done"
                    /\ ana_result' = "raised"
                    /\ fault' = (IF band = "LFN" THEN "lfn_alert_store"
                                 ELSE "hf_alert_store")
                    /\ UNCHANGED <<alerts, alert_history, alert_file>>
                 \/ /\ ana_pc' = next
                    /\ alerts' = Append(alerts, alert)
                    /\ alert_history' = Append(alert_history, alert)
                    /\ UNCHANGED ana_result
                    /\ \/ /\ alert_file' =
                               [state |-> "document",
                                alerts |-> Append(alert_history, alert)]
                          /\ UNCHANGED fault
                       \/ /\ fault' = "alert_log_error"
                          /\ UNCHANGED alert_file
                       \/ /\ fault' = "alert_log_truncated"
                          /\ alert_file' = [state |-> "truncated",
                                            alerts |-> <<>>]
    /\ UNCHANGED <<rec_vars, mon_vars, neg_vars, emm6_vars, db_vars, ana_window,
                   live_logs, images, makedirs_calls>>

\* lines 335-346: the measurement row is inserted and committed, or the
\* insert raises sqlite3.Error
InsertMeasurement ==
    /\ ana_pc = "measure"
    /\ \/ /\ live_logs' =
               Append(live_logs,
                      Measurement(BandPeak("LFN"), BandPeak("Ultrasonic"),
                                  BandAlert("LFN") \/ BandAlert("Ultrasonic")))
          /\ ana_pc' = "plot"
          /\ UNCHANGED <<fault, ana_result>>
       \/ /\ ana_pc' = "done"
          /\ ana_result' = "raised"
          /\ fault' = "measurement_store"
          /\ UNCHANGED live_logs
    /\ UNCHANGED <<rec_vars, mon_vars, neg_vars, emm6_vars, db_vars, ana_window,
                   alerts, alert_history, alert_file, images, makedirs_calls>>

\* lines 348-592: the figure is built, with the timeline read from the store:
\* it is built, or the plotting code raises an error the handler catches, or
\* get_db_connection() (476) raises sqlite3.Error
Plot ==
    /\ ana_pc = "plot"
    /\ \/ ana_pc' = "makedirs" /\ UNCHANGED <<fault, ana_result>>
       \/ /\ ana_pc' = "handler"
          /\ fault' = "plot_build_error"
          /\ UNCHANGED ana_result
       \/ /\ ana_pc' = "done"
          /\ ana_result' = "raised"
          /\ fault' = "timeline_store"
    /\ UNCHANGED <<rec_vars, mon_vars, neg_vars, emm6_vars, db_vars, ana_window,
                   alerts, live_logs, alert_history, alert_file, images,
                   makedirs_calls>>

\* lines 599-612: one attempt of "for attempt in range(max_retries)":
\* os.makedirs leaves the directory in place; or it raises OSError, which is
\* re-raised on the last attempt and followed by time.sleep(0.1) before it; or
\* it returns and the directory is not there, and the loop goes on or ends
MakeDirs ==
    /\ ana_pc = "makedirs"
    /\ makedirs_calls' = makedirs_calls + 1
    /\ \/ ana_pc' = "save" /\ UNCHANGED fault
       \/ IF makedirs_calls + 1 = max_retries
            THEN ana_pc' = "handler" /\ fault' = "makedirs_error"
            ELSE ana_pc' = "makedirs" /\ UNCHANGED fault
       \/ /\ ana_pc' = (IF makedirs_calls + 1 = max_retries THEN "save"
                        ELSE "makedirs")
          /\ UNCHANGED fault
    /\ UNCHANGED <<rec_vars, mon_vars, neg_vars, emm6_vars, db_vars, ana_window,
                   ana_result, alerts, live_logs, alert_history, alert_file,
                   images>>

\* lines 614-665: savefig writes the image and the _info.txt file is written
\* beside it; or savefig raises; or the image is saved and the info file
\* raises OSError
Save ==
    /\ ana_pc = "save"
    /\ \/ /\ images' = images + 1
          /\ ana_pc' = "done"
          /\ ana_result' = "returned"
          /\ UNCHANGED fault
       \/ /\ ana_pc' = "handler"
          /\ fault' = "plot_error"
          /\ UNCHANGED <<images, ana_result>>
       \/ /\ images' = images + 1
          /\ ana_pc' = "handler"
          /\ fault' = "info_error"
          /\ UNCHANGED ana_result
    /\ UNCHANGED <<rec_vars, mon_vars, neg_vars, emm6_vars, db_vars, ana_window,
                   alerts, live_logs, alert_history, alert_file,
                   makedirs_calls>>

\* lines 667-685: the handler of ValueError, TypeError, RuntimeError and
\* OSError inserts the fallback row, or its insert raises sqlite3.Error and
\* that is passed over; analyze_and_plot returns
Handler ==
    /\ ana_pc = "handler"
    /\ \/ live_logs' = Append(live_logs, FallbackMeasurement)
       \/ UNCHANGED live_logs
    /\ ana_pc' = "done"
    /\ ana_result' = "returned"
    /\ UNCHANGED <<rec_vars, mon_vars, neg_vars, emm6_vars, db_vars, ana_window,
                   fault, alerts, alert_history, alert_file, images,
                   makedirs_calls>>

AnaNext ==
    \/ AnalyzeAndPlot
    \/ \E band \in {"LFN", "Ultrasonic"} : LogAlert(band)
    \/ InsertMeasurement
    \/ Plot
    \/ MakeDirs
    \/ Save
    \/ Handler

AnaSpecInit == RecIdle /\ MonStarted /\ NegIdle /\ AnaInit /\ Emm6Idle /\ DbIdle

AnaSpec == AnaSpecInit /\ [][AnaNext]_vars

\* ------------------------------------------------------------------------
\* The high-pass correction of the recorder (long_duration_recorder.py,
\* 191-226), for one channel. Samples are fixed-point numbers: 1.0 is
\* FixedPoint.unit.

FixedPoint == [unit |-> 10000000, guard |-> 100]

\* line 203: signal.butter(2, 10, btype='highpass', fs=48000, output='sos'),
\*   b = [0.99907482762, -1.99814965525, 0.99907482762]
\*   a = [1, -1.99814879930, 0.99815051119]
\* kept as the distances of b0 from 1, a1 from -2 and a2 from 1, in units of
\* 1e-11, each in two parts: hi * 10^4 + lo
sos_lowcut == [b0 |-> [hi |-> 9251, lo |-> 7238],
               a1 |-> [hi |-> 18512, lo |-> 70],
               a2 |-> [hi |-> 18494, lo |-> 8881]]

\* c * v * 1e-11 rounded to the nearest integer, in 32-bit arithmetic: v is
\* split as vh * 10^5 + vl, and the partial products are summed in units of
\* 1e-6
Scaled(c, v) ==
    LET vh == v \div 100000
        vl == v % 100000
        q == c.hi * vh
        t == (c.hi * vl) \div 10 + c.lo * vh + (c.lo * vl) \div 100000
    IN q \div 100 + ((q % 100) * 10000 + t + 500000) \div 1000000

\* signal.sosfilt(sos_lowcut, x) without zi: one second-order section in
\* transposed direct form II, started from rest (z1 = z2 = 0):
\*   y = b0 x + z1;  z1 = b1 x - a1 y + z2;  z2 = b2 x - a2 y
\* with b1 = -2 b0 and b2 = b0, so that b1 x - a1 y = 2 z1 - (a1 + 2) y and
\* b2 x - a2 y = (1 - a2) y - z1 for the z1 before the step. The state and
\* the products carry FixedPoint.guard more digits than the samples; the
\* output is rounded to the samples' unit
SosStep(v, z) ==
    LET x == v * FixedPoint.guard
        bx == x - Scaled(sos_lowcut.b0, x)
        y == bx + z[1]
    IN [y |-> <<(y + FixedPoint.guard \div 2) \div FixedPoint.guard>>,
        z |-> <<2 * z[1] - Scaled(sos_lowcut.a1, y) + z[2],
                Scaled(sos_lowcut.a2, y) - z[1]>>]

\* samples lo..hi of x filtered from the state z: the outputs and the state
\* after them
RECURSIVE SosFiltFrom(_, _, _, _)
SosFiltFrom(x, lo, hi, z) ==
    IF lo > hi THEN [y |-> <<>>, z |-> z]
    ELSE IF lo = hi THEN SosStep(x[lo], z)
    ELSE LET mid == (lo + hi) \div 2
             first == SosFiltFrom(x, lo, mid, z)
             rest == SosFiltFrom(x, mid + 1, hi, first.z)
         IN [y |-> first.y \o rest.y, z |-> rest.z]

SosFilt(x) == SosFiltFrom(x, 1, Len(x), <<0, 0>>).y

FilterChunk_NoLengthTest(chunk) == SosFilt(chunk)

\* lines 217-224: a chunk of more than 100 samples is filtered, a shorter one
\* is copied
FilterChunk(chunk) ==
    IF Len(chunk) > MinFilterLength THEN SosFilt(chunk) ELSE chunk

\* line 208
num_chunks == (Len(audio) + chunk_size - 1) \div chunk_size

\* the signals: silence up to an onset, then a constant level
Levels == {-FixedPoint.unit, FixedPoint.unit \div 2, FixedPoint.unit}
Onsets == {1, MinFilterLength \div 2, MinFilterLength + 20}
ChunkSizes == {MinFilterLength, MinFilterLength + 1, MinFilterLength + 50}

Step(length, onset, level) ==
    [n \in 1..length |-> IF n < onset THEN 0 ELSE level]

\* the call: no array, an empty array, or a channel of N chunks of
\* chunk_size samples, with or without a shorter chunk after them
Remainders == {0, MinFilterLength \div 2}

Emm6Init ==
    /\ audio_none \in BOOLEAN
    /\ chunk_size \in ChunkSizes
    /\ \/ audio = <<>> /\ chunk_size = MinFilterLength
       \/ /\ ~audio_none
          /\ \E N \in 1..MaxChunks, extra \in Remainders, onset \in Onsets,
                level \in Levels :
                audio = Step(N * chunk_size + extra, onset, level)
    /\ filtered = <<>>
    /\ chunk_i = 0
    /\ emm6_pc = "called"
    /\ raised = {}
    /\ writes = <<>>

\* lines 197-208: an input that is None or empty is returned as it is;
\* otherwise filtered = np.zeros_like(audio)
ApplyEmm6CorrectionEntry ==
    /\ emm6_pc = "called"
    /\ IF audio_none \/ Len(audio) = 0
         THEN /\ emm6_pc' = "returned_input"
              /\ UNCHANGED <<filtered, writes>>
         ELSE /\ emm6_pc' = "loop"
              /\ filtered' = [n \in 1..Len(audio) |-> 0]
              /\ writes' = [n \in 1..Len(audio) |-> 0]
    /\ UNCHANGED <<rec_vars, mon_vars, neg_vars, ana_vars, db_vars, audio, audio_none,
                   chunk_size, chunk_i, raised>>

\* lines 210-224: one iteration of "for i in range(num_chunks)"; sosfilt
\* returns, or raises ValueError or RuntimeError and the chunk is copied
ApplyEmm6CorrectionChunk ==
    /\ emm6_pc = "loop"
    /\ chunk_i < num_chunks
    /\ \E raises \in BOOLEAN :
         LET start_idx == chunk_i * chunk_size
             end_idx == IF start_idx + chunk_size < Len(audio)
                          THEN start_idx + chunk_size ELSE Len(audio)
             chunk == SubSeq(audio, start_idx + 1, end_idx)
             out == IF raises THEN chunk ELSE FilterChunk(chunk)
         IN /\ raises => Len(chunk) > MinFilterLength
            /\ filtered' = [n \in 1..Len(filtered) |->
                              IF n > start_idx /\ n <= end_idx
                                THEN out[n - start_idx] ELSE filtered[n]]
            /\ writes' = [n \in 1..Len(writes) |->
                            IF n > start_idx /\ n <= end_idx
                              THEN writes[n] + 1 ELSE writes[n]]
            /\ raised' = IF raises THEN raised \cup {chunk_i} ELSE raised
    /\ chunk_i' = chunk_i + 1
    /\ UNCHANGED <<rec_vars, mon_vars, neg_vars, ana_vars, db_vars, audio, audio_none,
                   chunk_size, emm6_pc>>

\* line 226: return filtered
ApplyEmm6CorrectionReturn ==
    /\ emm6_pc = "loop"
    /\ chunk_i = num_chunks
    /\ emm6_pc' = "returned"
    /\ UNCHANGED <<rec_vars, mon_vars, neg_vars, ana_vars, db_vars, audio, audio_none,
                   chunk_size, filtered, chunk_i, raised, writes>>

Emm6Next ==
    \/ ApplyEmm6CorrectionEntry
    \/ ApplyEmm6CorrectionChunk
    \/ ApplyEmm6CorrectionReturn

Emm6SpecInit == RecIdle /\ MonInit /\ NegIdle /\ AnaIdle /\ Emm6Init /\ DbIdle

Emm6Spec == Emm6SpecInit /\ [][Emm6Next]_vars

\* ------------------------------------------------------------------------
\* init_db (lfn_realtime_monitor.py, 117-169)

\* lines 121-158: the statements of init_db, in order
Statements ==
    <<[kind |-> "create", table |-> "live_logs", column |-> ""],
      [kind |-> "create", table |-> "alerts", column |-> ""]>>
    \o [k \in 1..Len(AddedColumns("live_logs")) |->
          [kind |-> "alter", table |-> "live_logs",
           column |-> AddedColumns("live_logs")[k]]]
    \o [k \in 1..Len(AddedColumns("alerts")) |->
          [kind |-> "alter", table |-> "alerts",
           column |-> AddedColumns("alerts")[k]]]

\* CREATE TABLE IF NOT EXISTS changes a store without the table; ALTER TABLE
\* is executed for a column that PRAGMA table_info does not list (142-147)
Changes(d, st) ==
    IF st.kind = "create" THEN ~d[st.table].exists
    ELSE d[st.table].exists /\ st.column \notin d[st.table].columns

\* ALTER TABLE t ADD COLUMN: the rows stay and get the column's default
AddColumn_DropRows(table, t, column) ==
    [exists |-> TRUE, columns |-> table.columns \cup {column}, rows |-> <<>>]
AddColumn(table, t, column) ==
    [exists |-> TRUE,
     columns |-> table.columns \cup {column},
     rows |-> [i \in 1..Len(table.rows) |->
                 [c \in table.columns \cup {column} |->
                    IF c = column THEN DefaultOf(t) ELSE table.rows[i][c]]]]

Execute(d, st) ==
    IF st.kind = "create"
      THEN [d EXCEPT ![st.table] =
              [exists |-> TRUE,
               columns |-> BaseColumns(st.table) \cup AddedSet(st.table),
               rows |-> <<>>]]
      ELSE [d EXCEPT ![st.table] = AddColumn(d[st.table], st.table, st.column)]

RECURSIVE ExecuteFirst(_, _, _)
ExecuteFirst(d, sts, n) ==
    IF n = 0 THEN d ELSE Execute(ExecuteFirst(d, sts, n - 1), sts[n])

\* lines 117-169: init_db: every statement runs, or one of them (or the
\* connection, the commit or the close) raises sqlite3.Error or OSError after
\* the statements before it took effect, and the warning is printed
InitDb ==
    /\ db_runs < MaxInitDbRuns
    /\ LET pending == SelectSeq(Statements, LAMBDA st : Changes(database, st))
       IN \E done \in 0..Len(pending), failed \in BOOLEAN :
            /\ ~failed => done = Len(pending)
            /\ database' = ExecuteFirst(database, pending, done)
            /\ db_result' = IF failed THEN "warned" ELSE "ok"
    /\ db_before' = database
    /\ db_runs' = db_runs + 1
    /\ UNCHANGED <<rec_vars, mon_vars, neg_vars, ana_vars, emm6_vars>>

DbNext == InitDb

DbSpecInit == RecIdle /\ MonInit /\ NegIdle /\ AnaIdle /\ Emm6Idle /\ DbInit

DbSpec == DbSpecInit /\ [][DbNext]_vars


\* ================================================================== claims
IsPrefix(s, t) == Len(s) <= Len(t) /\ SubSeq(t, 1, Len(s)) = s

IsNone(x) == x = NoneItem
IsSegment(x) == x # NoneItem

RECURSIVE SumSamples(_)
SumSamples(fs) == IF fs = <<>> THEN 0
                  ELSE fs[1].samples + SumSamples(Tail(fs))

WrittenIds == [k \in 1..Len(files) |-> files[k].segment]
CapturedIds == [k \in 1..Len(captured) |-> captured[k].id]
EnqueuedSegments == SelectSeq(enqueued, IsSegment)

\* segments in memory that no file holds yet: the worker's local, the queued
\* items and the consumer's local
ResidentIds ==
    {audio_segment[i].id : i \in 1..Len(audio_segment)}
    \cup {self_audio_queue[i].id : i \in {j \in 1..Len(self_audio_queue) :
                                            IsSegment(self_audio_queue[j])}}
    \cup {audio_data[i].id : i \in 1..Len(audio_data)}
UnwrittenResident == ResidentIds \ {files[k].segment : k \in 1..Len(files)}

\* ---- C1: the recorder's queue never holds more than the capacity fixed at
\* construction (10), whatever the consumer does.
C1_QueueWithinCapacity == Len(self_audio_queue) <= RecorderQueueMaxsize

\* the queue is full, the worker waits in put, the consumer has stopped consuming
C1_Witness ==
    /\ Len(self_audio_queue) = RecorderQueueMaxsize
    /\ w_pc \in {"put", "finally"}
    /\ c_pc = "join"

\* ---- C2: the monitor's queue depth stays at or below a capacity fixed at
\* construction.  The queue is built with no capacity, so the claim is stated
\* against the number of blocks delivered: some depth below MaxCallbacks is
\* never exceeded, however many callbacks arrive while the consumer sleeps.
C2_DepthBounded == Len(audio_queue) < MaxCallbacks

\* ---- C3: at most one captured segment is resident and not yet written.
C3_OneSegmentResident == Cardinality(UnwrittenResident) <= 1

\* ---- C4: when record_long_session has returned, the queue is empty.
C4_QueueEmptyAtEnd == c_pc = "returned" => self_audio_queue = <<>>

\* the steps the two threads of a session take by themselves, once the
\* consumer has left its loop (Ctrl+C is a step of the user)
SessionStep ==
    \/ ConsumerFinally
    \/ ConsumerJoinReturn
    \/ WorkerOpen
    \/ WorkerLoopTest
    \/ WorkerRead
    \/ WorkerReadError
    \/ WorkerPut
    \/ WorkerFinally

\* ---- C5: once the consumer has left its loop, the session is never stuck:
\* the capture thread can finish and record_long_session can return.
C5_NeverStuck == c_pc \in {"finally", "join"} => ENABLED SessionStep

\* ---- C6: at most one record_loop thread is alive and at most one started
\* capture stream feeds the audio queue.
C6_SingleConsumer ==
    /\ Cardinality({t \in 1..MaxThreads : Alive(t)}) <= 1
    /\ Cardinality({t \in 1..MaxThreads : streams[t] \in {"trial", "active"}}) <= 1

\* ---- C7: the segments written are a prefix of the segments captured (capture
\* order, none skipped, none twice), and the capture thread never drops a
\* segment: every captured segment has been put, except the one it is putting.
C7_WrittenPrefixOfCaptured ==
    /\ IsPrefix(WrittenIds, CapturedIds)
    /\ EnqueuedSegments = IF w_pc = "put"
                            THEN SubSeq(captured, 1, Len(captured) - 1)
                            ELSE captured

\* the queue is full and the worker stalls in put while files are being written
C7_Witness ==
    /\ w_pc = "put"
    /\ QueueFull(self_audio_queue, RecorderQueueMaxsize)
    /\ Len(files) >= 1

\* ---- C8: a session that completes without error writes n files where n is
\* the ceiling of T/S; all but the last hold S x sample_rate samples and all
\* together hold T x sample_rate samples.
C8_SegmentRotation ==
    (c_pc = "returned" /\ ~w_error /\ c_exit \notin {"error", "interrupt"}) =>
        /\ (Len(files) - 1) * segment_duration < total_duration_seconds
        /\ total_duration_seconds <= Len(files) * segment_duration
        /\ \A k \in 1..(Len(files) - 1) :
              files[k].samples = segment_duration * sample_rate
        /\ SumSamples(files) = total_duration_seconds * sample_rate

\* three files, the last one shorter than a full segment
C8_Witness ==
    /\ c_pc = "returned" /\ ~w_error /\ c_exit = "complete"
    /\ Len(files) = 3
    /\ files[3].samples < segment_duration * sample_rate

\* ---- C9: the k-th file is named with index k and with the timestamp of
\* session start plus (k-1) segment durations; consecutive timestamps differ
\* by exactly one segment duration.
C9_FileNames ==
    /\ \A k \in 1..Len(files) :
          /\ files[k].index = k
          /\ files[k].timestamp = StrfTime(start_time) + (k - 1) * segment_duration
    /\ \A k \in 1..(Len(files) - 1) :
          files[k + 1].timestamp - files[k].timestamp = segment_duration

\* three files of a session that started between two whole seconds
C9_Witness ==
    /\ Len(files) >= 3
    /\ start_time % TicksPerSecond # 0
    /\ segment_duration > 1

\* ---- C10: a capture thread that has ended has put exactly one sentinel, as
\* its last item; once the consumer has received the sentinel it has left its
\* loop for good, no file is written any more, the capture thread has ended,
\* and the value the session returns is the number of files written.
C10_Sentinel ==
    /\ [](w_pc = "done" =>
            /\ enqueued # <<>>
            /\ IsNone(enqueued[Len(enqueued)])
            /\ Len(SelectSeq(enqueued, IsNone)) = 1)
    /\ [](c_exit = "sentinel" =>
            /\ w_pc = "done"
            /\ c_pc \in {"finally", "join", "returned", "raised"}
            /\ segment_count = Len(files))
    /\ []((c_pc = "returned" /\ c_exit = "sentinel") => returned = Len(files))
    /\ [][c_exit = "sentinel" => files' = files]_vars

\* the stream failed after one segment, the sentinel ended the session
C10_Witness ==
    /\ c_pc = "returned"
    /\ c_exit = "sentinel"
    /\ w_error
    /\ returned = 1

\* ---------------------------------------------------------------- C11..C14
\* C11: once stop has cleared the flag, no record_loop is left waiting in
\* audio_queue.get() on an empty queue: audio_callback enqueues nothing while
\* the flag is False, so a loop waiting there would never be left and its
\* stream never closed.
C11_StopEndsLoop ==
    \A t \in 1..MaxThreads :
        (~monitoring /\ threads[t].pc = "get") => audio_queue # <<>>

\* C12: a failed store write never ends the consumer thread: no record_loop
\* is terminated by the sqlite3.Error of an insert.
C12_StoreFailureAbsorbed ==
    \A t \in 1..MaxThreads : threads[t].pc # "died"

\* the alerts of a band written for the window
AlertsOf(type) ==
    SelectSeq(alerts, LAMBDA a : a.alert_type = type /\ a # OldAlert)

\* the window was analysed and nothing failed
AnalysedCleanly == ana_pc = "done" /\ ana_result = "returned" /\ fault = "none"

\* C13: a band whose maximum is exactly at the threshold raises no alert, a
\* band whose maximum is above the threshold raises exactly one alert.
C13_BandMaxDecides ==
    AnalysedCleanly =>
        /\ lfn_max_spectrum # <<>> =>
             LET m == MaxOf({lfn_max_spectrum[i] : i \in 1..Len(lfn_max_spectrum)})
             IN /\ m = LFN_ALERT_THRESHOLD => AlertsOf("LFN") = <<>>
                /\ m > LFN_ALERT_THRESHOLD => Len(AlertsOf("LFN")) = 1
        /\ hf_max_spectrum # <<>> =>
             LET m == MaxOf({hf_max_spectrum[i] : i \in 1..Len(hf_max_spectrum)})
             IN /\ m = HF_ALERT_THRESHOLD => AlertsOf("Ultrasonic") = <<>>
                /\ m > HF_ALERT_THRESHOLD => Len(AlertsOf("Ultrasonic")) = 1

\* C14: a window writes at most one alert per band, and every measurement
\* record of the window is flagged alert_triggered exactly when a band
\* alerted.
C14_OneAlertPerBandAndFlag ==
    ana_pc = "done" =>
        /\ Len(AlertsOf("LFN")) <= 1
        /\ Len(AlertsOf("Ultrasonic")) <= 1
        /\ \A i \in 1..Len(live_logs) :
             live_logs[i].alert_triggered = 1 <=>
                 (AlertsOf("LFN") # <<>> \/ AlertsOf("Ultrasonic") # <<>>)

\* ---------------------------------------------------------------- C15..C20
\* the attempts made so far on device d, in order
TriedOn(d) == SelectSeq(tried, LAMBDA e : e.device = d)

\* the devices attempted so far, in order of first attempt
RECURSIVE TriedDevicesFrom(_)
TriedDevicesFrom(i) ==
    IF i = 0 THEN <<>>
    ELSE LET before == TriedDevicesFrom(i - 1)
         IN IF before # <<>> /\ before[Len(before)] = tried[i].device
              THEN before
              ELSE Append(before, tried[i].device)
TriedDevices == TriedDevicesFrom(Len(tried))

\* _attempt_stream has returned for device_idx
AttemptReturned == n_pc = "attempted"

\* the requested rate was given and the device refused it, while the device
\* supports its own default rate
C15_Case ==
    /\ AttemptReturned
    /\ requested_sample_rate # 0
    /\ behaviour[<<device_idx, requested_sample_rate>>] # "ok"
    /\ devices[device_idx].default_samplerate # 0
    /\ behaviour[<<device_idx, devices[device_idx].default_samplerate>>] = "ok"

C15_Reported(rate) ==
    \E i \in 1..Len(messages) :
        /\ messages[i].kind = "unsupported"
        /\ messages[i].requested = IntHz(requested_sample_rate)
        /\ messages[i].rate = IntHz(rate)

\* C15 as stated: when the requested rate is unsupported and the device
\* supports its default rate, the attempt succeeds with the device default
\* and the substitution is reported.
C15_DeviceDefaultUsed ==
    C15_Case =>
        /\ stream # <<>>
        /\ samplerate = devices[device_idx].default_samplerate
        /\ C15_Reported(samplerate)

\* C15 amended: when the requested rate is unsupported, the device supports
\* its default rate and that default is at least 1 Hz away from the requested
\* rate, the attempt succeeds with 44100 Hz if the device supports 44100 Hz
\* and with the device default otherwise; the substitution is reported when
\* the rate used is more than 1 Hz away from the requested one.
C15_FallbackUsed ==
    (/\ C15_Case
     /\ Abs(devices[device_idx].default_samplerate - requested_sample_rate)
            >= HzUnits)
    =>
        /\ stream # <<>>
        /\ samplerate = IF behaviour[<<device_idx, SystemRate>>] = "ok"
                          THEN SystemRate
                          ELSE devices[device_idx].default_samplerate
        /\ Abs(samplerate - requested_sample_rate) > HzUnits
               => C15_Reported(samplerate)

\* the device default is used because the requested rate and 44100 Hz failed
C15_Witness ==
    /\ C15_Case
    /\ stream # <<>>
    /\ samplerate = devices[device_idx].default_samplerate
    /\ samplerate # SystemRate
    /\ Len(TriedOn(device_idx)) = 3
    /\ C15_Reported(samplerate)

\* C16 as stated: candidates are tried in the order requested, 44100, device
\* default with min(max_input_channels, 2) channels, and the stream is
\* returned for the first candidate whose validation and trial open/close
\* succeed, after which no candidate is tried.
C16_FirstTrialSuccessReturned ==
    \A i \in 1..Len(tried) :
        tried[i].outcome \in {"ok", "main_fail"} =>
            /\ i = Len(tried)
            /\ stream = <<[device |-> tried[i].device, rate |-> tried[i].rate,
                           channels |-> tried[i].channels]>>

\* requested (if any), 44100 Hz, then the device default unless it is within
\* 1 Hz of one of them
C16_Order(d) ==
    LET r == requested_sample_rate
        df == devices[d].default_samplerate
    IN (IF r # 0 THEN <<r>> ELSE <<>>) \o <<SystemRate>> \o
       (IF df # 0 /\ Abs(df - SystemRate) >= HzUnits
              /\ (r = 0 \/ Abs(df - r) >= HzUnits)
          THEN <<df>> ELSE <<>>)

\* C16 amended: on each device the candidates are tried in that order with
\* min(max_input_channels, 2) channels; the stream is returned for the first
\* candidate whose validation, trial open/close and creation of the main
\* stream all succeed, and no candidate is tried after it.
C16_FirstFullSuccessReturned ==
    /\ \A d \in DeviceIds :
         LET on == TriedOn(d)
         IN /\ Len(on) <= Len(C16_Order(d))
            /\ \A i \in 1..Len(on) :
                 /\ on[i].rate = C16_Order(d)[i]
                 /\ on[i].channels = Min(devices[d].max_input_channels,
                                         MaxStreamChannels)
    /\ \A i \in 1..Len(tried) :
         tried[i].outcome = "ok" =>
             /\ i = Len(tried)
             /\ stream = <<[device |-> tried[i].device, rate |-> tried[i].rate,
                            channels |-> tried[i].channels]>>
    /\ stream # <<>> =>
         /\ tried # <<>>
         /\ tried[Len(tried)].outcome = "ok"

\* the third candidate is returned after the trial of an earlier one
\* succeeded and the creation of its main stream failed
C16_Witness ==
    /\ Len(tried) = 3
    /\ tried[3].outcome = "ok"
    /\ tried[3].channels = 2
    /\ stream # <<>>
    /\ \E i \in 1..2 : tried[i].outcome = "main_fail"

\* C17: the candidate list never holds two rates less than 1 Hz apart.
C17_NoNearDuplicateRates ==
    \A i, j \in 1..Len(preferred_rates) :
        i # j => Abs(preferred_rates[i] - preferred_rates[j]) >= HzUnits

\* C18: for a device without input channels record_loop opens no trial and
\* no main stream, leaves the flag false and returns.
C18_NoInputChannels ==
    (/\ n_pc # "query"
     /\ device \in DeviceIds
     /\ devices[device].max_input_channels = 0)
    =>
        /\ n_pc = "returned"
        /\ ~monitoring
        /\ tried = <<>>
        /\ stream = <<>>

C18_Witness ==
    /\ n_pc = "returned"
    /\ n_result = "no_input_channels"
    /\ device \in DeviceIds
    /\ devices[device].max_input_channels = 0
    /\ ~monitoring

\* every candidate of the primary device failed with the host-API error and
\* record_loop has gone on from there
C19_Case ==
    /\ n_pc \in {"alternatives", "negotiated", "returned"} \/ n_phase = "alt"
    /\ tried # <<>>
    /\ \A i \in 1..Len(TriedOn(tried[1].device)) :
         TriedOn(tried[1].device)[i].outcome = "host_error"

\* the devices other than orig that have its name and an input channel
C19_Alternates(orig) ==
    SelectSeq(DeviceOrder,
              LAMBDA d : /\ d # orig
                         /\ devices[d].name = devices[orig].name
                         /\ devices[d].max_input_channels >= 1)

\* C19: when every primary candidate fails with error -9999 the alternates
\* (same name, at least one input channel) are attempted in index order, the
\* first one that succeeds is used and none is attempted after it.
C19_AlternatesInOrder ==
    C19_Case =>
        LET orig == tried[1].device
            alts == Tail(TriedDevices)
        IN /\ IsPrefix(alts, C19_Alternates(orig))
           /\ n_pc = "negotiated" =>
                /\ alts # <<>>
                /\ stream # <<>>
                /\ stream[1].device = alts[Len(alts)]
                /\ device = alts[Len(alts)]
                /\ \A i \in 1..Len(tried) :
                     tried[i].outcome = "ok" => i = Len(tried)
           /\ n_pc = "returned" =>
                /\ alts = C19_Alternates(orig)
                /\ stream = <<>>

\* C20: when the primary device and every alternate fail, the reported
\* failure has one entry per attempt made, with that attempt's rate.
C20_ReportListsEveryAttempt ==
    n_result = "failed" =>
        /\ Len(report) = Len(tried)
        /\ \A i \in 1..Len(tried) : report[i].rate = IntHz(tried[i].rate)

\* ---------------------------------------------------------------- C24, C29
\* C24: a queue-read timeout of the recorder's consumer during an active
\* session changes neither the segment count nor the recording flag nor the
\* files, and the consumer goes back to the loop test with the session still
\* active, so that it waits on the queue again.
C24_TimeoutContinues ==
    [][/\ (c_pc # "warned" /\ c_pc' = "warned") =>
            /\ c_pc = "get"
            /\ self_audio_queue = <<>>
            /\ segment_count' = segment_count
            /\ is_recording' = is_recording
            /\ files' = files
       /\ c_pc' = "warned" =>
            /\ is_recording'
            /\ segment_count' < segments_needed'
       /\ (c_pc = "warned" /\ c_pc' \notin {"warned", "finally"}) =>
            /\ c_pc' = "loop"
            /\ is_recording'
            /\ segment_count' = segment_count
       /\ (c_pc = "loop" /\ c_pc' # "loop" /\ c_exit' = c_exit
              /\ is_recording /\ segment_count < segments_needed) =>
            c_pc' = "get"]_vars

\* a timeout in the middle of a session, after a segment has been written
C24_Witness ==
    /\ c_pc = "warned"
    /\ is_recording
    /\ segment_count >= 1
    /\ segment_count < segments_needed

\* C29: a segment read with the overflow flag set is still enqueued by the
\* capture thread, the stream stays open, and the loop goes on to the next
\* read while the session lasts.
C29_OverflowStillEnqueued ==
    [][/\ (w_pc = "put" /\ overflowed /\ w_pc' # "put") =>
            /\ enqueued' = Append(enqueued, audio_segment[1])
            /\ self_audio_queue' = Append(self_audio_queue, audio_segment[1])
            /\ w_pc' = "loop"
            /\ stream_open'
            /\ ~w_error'
       /\ (w_pc = "loop" /\ overflowed /\ w_pc' # "loop"
              /\ is_recording /\ samples_captured < TotalSamples) =>
            w_pc' = "read"]_vars

\* a second segment is being read after an overflowed first one was enqueued
C29_Witness ==
    /\ w_pc = "read"
    /\ overflowed
    /\ stream_open
    /\ Len(captured) >= 1
    /\ enqueued # <<>>
    /\ enqueued[Len(enqueued)] = captured[Len(captured)]

\* ---------------------------------------------------------------- C21, C27
\* C21: when negotiation has ended, with or without a stream, the audio
\* queue holds what it held when negotiation began (nothing).
C21_QueueUntouched ==
    n_pc \in {"negotiated", "returned"} => audio_queue = <<>>

\* C27: the main stream exists only once an attempt has fully succeeded, and
\* every failed negotiation (query error, no input channels, all candidates
\* failed) has returned with the flag cleared and no stream.
C27_FailureLeavesIdle ==
    /\ stream # <<>> =>
         /\ tried # <<>>
         /\ tried[Len(tried)].outcome = "ok"
         /\ n_pc \in {"attempted", "negotiated"}
    /\ n_pc = "negotiated" => (stream # <<>> /\ monitoring)
    /\ n_result \in {"query_error", "no_input_channels", "failed"} =>
         /\ n_pc = "returned"
         /\ ~monitoring
         /\ stream = <<>>
    /\ n_pc = "returned" =>
         n_result \in {"query_error", "no_input_channels", "failed"}

\* the primary device and an alternate have both failed
C27_Witness ==
    /\ n_pc = "returned"
    /\ n_result = "failed"
    /\ Len(TriedDevices) >= 2
    /\ ~monitoring
    /\ stream = <<>>

PriorStore == alerts \in {<<>>, <<OldAlert>>} /\ alert_file = PriorLog(alerts)

\* C23: a window shorter than one spectrogram segment is skipped without an
\* error: no measurement row, no alert, no image, no directory, the alerts
\* table and the alert log as they were, and the session still monitoring.
C23_ShortWindowSkipped ==
    (ana_pc = "done" /\ window_samples < SPECTROGRAM_NPERSEG) =>
        /\ ana_result = "skipped"
        /\ fault = "none"
        /\ live_logs = <<>>
        /\ PriorStore
        /\ images = 0
        /\ makedirs_calls = 0
        /\ monitoring

\* a short window has been handed over and skipped, the store holding an
\* earlier alert
C23_Witness ==
    /\ ana_pc = "done"
    /\ window_samples = SPECTROGRAM_NPERSEG - 1
    /\ ana_result = "skipped"
    /\ alerts = <<OldAlert>>

\* --------------------------------------------------------------------- C22
InBand(frequency, range) == frequency >= range[1] /\ frequency <= range[2]

\* C22: every measurement of a window analysed without a fault reports, for
\* each band, a peak whose frequency lies within the band's range, a band
\* without spectrogram bins included.
C22_PeakWithinBand ==
    AnalysedCleanly =>
        \A i \in 1..Len(live_logs) :
            /\ InBand(live_logs[i].lfn_peak, LF_RANGE)
            /\ InBand(live_logs[i].hf_peak, HF_RANGE)

\* --------------------------------------------------------------------- C26
\* C26: the directory is created in at most max_retries attempts, and when
\* the last attempt fails too the session stops monitoring.
C26_DirectoryFailureFatal ==
    (ana_pc = "done" /\ fault = "makedirs_error") =>
        /\ makedirs_calls <= max_retries
        /\ ana_result # "returned"
        /\ ~monitoring

\* --------------------------------------------------------------------- C30
Records(log) == {log[i] : i \in 1..Len(log)}

\* C30: an alert record is never removed: after a window analysed without a
\* failure, the JSON alert log holds every record of the alerts table,
\* earlier records and new ones, an alert logged by an earlier run of the
\* monitor included.
C30_AlertsAppendOnly ==
    (ana_pc = "done" /\ fault = "none") =>
        /\ Records(alerts) \subseteq Records(alert_file.alerts)
        /\ Len(alert_file.alerts) = Len(alerts)

\* --------------------------------------------------------------------- C25
\* the output of the same call made in one pass (one chunk of all samples)
OnePass == FilterChunk(audio)

\* C25: the channel filtered in N equal chunks, sosfilt raising on none,
\* equals, within 1e-5, the channel filtered in one pass.
C25_ChunkedEqualsOnePass ==
    (emm6_pc = "returned" /\ raised = {} /\ Len(audio) % chunk_size = 0) =>
        LET one == OnePass
        IN /\ Len(filtered) = Len(one)
           /\ \A n \in 1..Len(one) :
                 Abs(filtered[n] - one[n]) <= FixedPoint.unit \div 100000

\* --------------------------------------------------------------------- C31
\* a thread that holds blocks not yet handed to an analysis
Collecting(t) == threads[t].pc \in {"drain", "get", "analyze"}

\* the blocks still waiting when thread t hands its window to the analysis: on
\* the queue or in the buffer another thread is filling
PendingBeside(t) ==
    {audio_queue[i] : i \in 1..Len(audio_queue)} \cup
    UNION {{threads[u].buffer[i] : i \in 1..Len(threads[u].buffer)} :
             u \in {v \in 1..MaxThreads : v # t /\ Collecting(v)}}

\* C31: the blocks of the successive analysis windows, concatenated, are a
\* prefix of the blocks enqueued, in arrival order: a window is in arrival
\* order, and when it is handed to the analysis no earlier block is passed
\* over, that is, every block still waiting arrived after every block of it.
C31_WindowsInArrivalOrder ==
    [][\A t \in 1..MaxThreads :
          (threads[t].pc = "analyze" /\ threads'[t].pc # "analyze") =>
             LET window == threads[t].buffer
             IN /\ \A i, j \in 1..Len(window) : i < j => window[i] < window[j]
                /\ \A i \in 1..Len(window) :
                      \A b \in PendingBeside(t) : window[i] < b]_vars

\* --------------------------------------------------------------------- C35
\* C35: while the session flag is set a record_loop thread is alive.
C35_FlagImpliesThread ==
    monitoring => \E t \in 1..MaxThreads : Alive(t)

\* --------------------------------------------------------------------- C32
\* the peak (frequency, level) is the highest of the prominent local maxima
\* of the profile x, or, when there is none, the largest bin of x
HighestPeakOf(x, range, peak, db) ==
    LET prominent == FindPeaks(x)
        among == IF prominent # {} THEN prominent ELSE 1..Len(x)
        top == MaxOf({x[i] : i \in among})
    IN /\ db = top
       /\ \E i \in among : x[i] = top /\ peak = BinFrequency(range, i, Len(x))

C36_OneRowPerWindow ==
    (/\ ana_pc = "done"
     /\ window_samples >= SPECTROGRAM_NPERSEG
     /\ fault \in {"none", "makedirs_error", "plot_error", "info_error"}) =>
        Len(live_logs) = 1

\* --------------------------------------------------------------------- C33
ChunkOf(i) ==
    LET start_idx == i * chunk_size
        end_idx == IF start_idx + chunk_size < Len(audio)
                     THEN start_idx + chunk_size ELSE Len(audio)
    IN (start_idx + 1)..end_idx

\* C33: an input that is None or empty is returned as it is; otherwise the
\* function returns an array as long as its input, every index of which was
\* assigned exactly once, and a chunk of 100 samples or fewer, or one on
\* which sosfilt raised, holds the input samples.
C33_ShortOrFailedChunkCopied ==
    /\ emm6_pc = "returned_input" => (audio_none \/ audio = <<>>)
    /\ emm6_pc \in {"loop", "returned"} => (~audio_none /\ audio # <<>>)
    /\ emm6_pc = "returned" =>
         /\ Len(filtered) = Len(audio)
         /\ \A n \in 1..Len(audio) : writes[n] = 1
         /\ \A i \in 0..(num_chunks - 1) :
              (Cardinality(ChunkOf(i)) <= MinFilterLength \/ i \in raised) =>
                  \A n \in ChunkOf(i) : filtered[n] = audio[n]

\* a call has returned in which sosfilt raised on one chunk and the last
\* chunk, shorter than the others and at most 100 samples long, was copied,
\* the signal not being silent
C33_Witness ==
    /\ emm6_pc = "returned"
    /\ raised # {}
    /\ Len(audio) % chunk_size # 0
    /\ audio[Len(audio)] # 0
    /\ filtered[1] # 0

\* --------------------------------------------------------------------- C39
\* the streams open after the first k events of an attempt
RECURSIVE OpenAfter(_, _)
OpenAfter(events, k) ==
    IF k = 0 THEN 0
    ELSE OpenAfter(events, k - 1) +
         (CASE events[k] \in {"create", "main"} -> 1
            [] events[k] = "close" -> -1
            [] OTHER -> 0)

\* C39: during negotiation at most one stream is open at any time; when an
\* attempt ends its trial stream is closed, so that only the main stream it
\* returned can be open when the next candidate is tried or negotiation
\* ends, and after a failed negotiation no stream is open.
C39_OneStreamOpen ==
    /\ \A k \in 0..Len(test_stream) : OpenAfter(test_stream, k) <= 1
    /\ OpenAfter(test_stream, Len(test_stream)) = Len(stream)
    /\ n_result = "failed" => stream = <<>>

\* negotiation has failed after an attempt whose trial stream was created
\* and whose start or stop raised
C39_Witness ==
    /\ n_result = "failed"
    /\ test_stream # <<>>
    /\ \A k \in 1..Len(test_stream) : test_stream[k] # "stop"

\* --------------------------------------------------------------------- C38
\* C38: the value record_long_session returns is the number of files written
\* in the session, never more than the segments planned; the counter never
\* runs ahead of the files; an error in the consumer makes it leave the loop
\* for the end of the session.
C38_CountIsFilesWritten ==
    /\ segment_count <= Len(files)
    /\ segment_count <= segments_needed
    /\ c_exit = "error" => c_pc \in {"finally", "join", "returned", "raised"}
    /\ c_pc = "returned" => (returned = segment_count /\ returned = Len(files))

\* --------------------------------------------------------------------- C37
\* C37: a second session on the instance starts with an empty queue and,
\* when nothing fails and nobody interrupts it, writes as many segments as
\* were planned for it.
C37_SecondSessionIndependent ==
    session = 2 =>
        /\ (c_pc = "loop" /\ w_pc = "start") => self_audio_queue = <<>>
        /\ (c_pc = "returned" /\ ~w_error /\ c_exit \notin {"error", "interrupt"}) =>
               Len(files) = segments_needed

\* --------------------------------------------------------------------- C34
UpToDate(d) ==
    \A t \in {"live_logs", "alerts"} :
        d[t].exists /\ AddedSet(t) \subseteq d[t].columns

\* C34: init_db ends with the store initialised or with a warning; it keeps
\* every table, column and row the store had, with the values they had; when
\* it ends without a warning every table has every added column; and on a
\* store that is up to date it changes nothing.
C34_SchemaEvolution ==
    db_runs >= 1 =>
        /\ db_result \in {"ok", "warned"}
        /\ \A t \in {"live_logs", "alerts"} :
             db_before[t].exists =>
                /\ database[t].exists
                /\ db_before[t].columns \subseteq database[t].columns
                /\ Len(database[t].rows) = Len(db_before[t].rows)
                /\ \A i \in 1..Len(db_before[t].rows) :
                     \A c \in db_before[t].columns :
                        database[t].rows[i][c] = db_before[t].rows[i][c]
        /\ db_result = "ok" => UpToDate(database)
        /\ UpToDate(db_before) => database = db_before

\* init_db has run twice on a store whose alerts table had a row and lacked
\* the message column: the row has the column, and the second run changed
\* nothing
C34_Witness ==
    /\ db_runs = 2
    /\ db_result = "ok"
    /\ database = db_before
    /\ Len(database["alerts"].rows) = 1
    /\ database["alerts"].rows[1]["message"] = "NULL"
    /\ database["alerts"].rows[1]["timestamp"] = "stored"


=============================================================================
